---- MODULE Spec2Model ----
(***************************************************************************)
(* BlockShelf: the collaboration / sharing authorization model.            *)
(*                                                                         *)
(* Tables are functions from primary key to row; a request in flight is a  *)
(* record in a request slot that holds the rows it has read so far.  Every *)
(* handler is translated statement by statement: each database statement   *)
(* is one step (the project runs in autocommit mode, so another request    *)
(* can commit between two statements of a handler).                        *)
(***************************************************************************)
EXTENDS Integers, FiniteSets, Sequences, TLC

VARIABLES
    collabs,     \* InventoryCollab table: pk -> row
    collabSeq,   \* last primary key handed out for InventoryCollab
    items,       \* InventoryItem table: pk -> row
    itemSeq,     \* last primary key handed out for InventoryItem
    shares,      \* InventoryShare table: pk -> row
    shareSeq,    \* last primary key handed out for InventoryShare
    tokenSeq,    \* number of share tokens that get_random_string has produced
    now,         \* timezone.now()
    counters,    \* the rate-limit entries of the cache: key -> count
    allowed,     \* history: key -> the number of calls of _rate_limit_ok that
                 \* counted under the key and returned True
    lookups,     \* the lookup entries of the cache: key -> response body
    parts,       \* RBPart table: part_num -> row
    elements,    \* RBElement table: element_id -> row
    lastLookup,  \* history: the identifier and the number of external calls
                 \* of the lookup_part request that finished last
    appconfig,   \* the AppConfig row (singleton_id = 1), or Null before it exists
    configCache, \* the cache entry "appconfig_solo", or Null
    configSaves, \* history: the number of AppConfig.save() calls that completed
    reqs         \* request slot -> the request running in it, or the response
                 \* of the request that finished in it, or Idle

shareVars == <<shares, shareSeq, tokenSeq, now>>
catalogVars == <<lookups, parts, elements, lastLookup>>
configVars == <<appconfig, configCache, configSaves>>
apiVars == <<counters, allowed, catalogVars, configVars>>
vars == <<collabs, collabSeq, items, itemSeq, shares, shareSeq, tokenSeq, now,
          counters, allowed, lookups, parts, elements, lastLookup,
          appconfig, configCache, configSaves, reqs>>

(***************************************************************************)
(* Universe                                                                *)
(***************************************************************************)
Users == {"alice", "bob", "carol"}        \* rows of auth_user
Anonymous == "anonymous"                  \* request.user of a logged-out client
NoUser == "NULL"                          \* a NULL foreign key to auth_user
GhostId == "ghost"                        \* a pk that no auth_user row has
NoParam == ""                             \* the request has no ?owner=
Slots == {"r1", "r2"}                     \* concurrently served requests

MaxCollabs == 2                           \* InventoryCollab rows ever created

Null == <<>>                              \* a NULL timestamp
Stamp == <<"now">>                        \* timezone.now() (collab rows never compare times)

Idle == [op |-> "idle"]

(***************************************************************************)
(* Responses                                                               *)
(***************************************************************************)
SettingsInvite == <<"settings", "tab=invite">>
SettingsSharing == <<"settings", "tab=sharing">>
ListUrl(owner) == <<"list", "owner=", owner>>
List == <<"list">>
Login == <<"login">>
NoCollabMatches == "No InventoryCollab matches the given query."
NoItemMatches == "No InventoryItem matches the given query."
DatabaseError == "Save with update_fields did not affect any rows."
IntegrityError == "UNIQUE constraint failed"

\* A response: the status, the redirect target, the message shown to the user
\* (level and text) and the pks of the InventoryItem rows in the page.
Redirect(to, level, text) ==
    [status |-> 302, to |-> to, msg |-> <<level, text>>, shown |-> {}]
Forbidden(text) ==
    [status |-> 403, to |-> <<>>, msg |-> <<"body", <<text>>>>, shown |-> {}]
Render(template, errors, shown) ==
    [status |-> 200, to |-> <<>>, msg |-> <<template, errors>>, shown |-> shown]

(***************************************************************************)
(* InventoryCollab                                                         *)
(***************************************************************************)
Email(u) == <<u, "@example.com">>

\* uniq_active_owner_collaborator, as the database checks it for the row
\* that a statement is about to write under primary key pk
MutUniqActiveIgnored(tbl, pk, row) == TRUE
UniqActiveOwnerCollaborator(tbl, pk, row) ==
    (row.collaborator # NoUser /\ row.is_active) =>
        \A k \in DOMAIN tbl \ {pk} :
            ~(/\ tbl[k].owner = row.owner
              /\ tbl[k].collaborator = row.collaborator
              /\ tbl[k].is_active)

\* InventoryCollab.mark_accepted: the row as the UPDATE leaves it
mark_accepted(row, user) ==
    [row EXCEPT !.collaborator = user, !.accepted_at = Stamp, !.is_active = TRUE]

\* InventoryCollab.revoke: the row as the UPDATE leaves it
revoke(row) == [row EXCEPT !.is_active = FALSE, !.revoked_at = Stamp]

\* InventoryCollab.objects.filter(owner=, collaborator=, is_active=True,
\* accepted_at__isnull=False)
ActiveCollabs(owner, viewer) ==
    {k \in DOMAIN collabs :
        /\ collabs[k].owner = owner
        /\ collabs[k].collaborator = viewer
        /\ collabs[k].is_active
        /\ collabs[k].accepted_at # Null}

Min(S) == CHOOSE x \in S : \A y \in S : x <= y

\* get_object_or_404(InventoryCollab, pk=pk, owner=request.user) finds a row
MutOwnInviteAnyOwner(pk, u) == pk \in DOMAIN collabs
OwnInvite(pk, u) == pk \in DOMAIN collabs /\ collabs[pk].owner = u

\* A request: the handler, the authenticated user and the URL argument
\* (0 when the URL has none).
Request(op, u, arg) == [op |-> op, user |-> u, arg |-> arg]

\* The handler returns response r.  An observed slot keeps the request and
\* its response until the next request is served in it.
Finish(p, keep, rq, r) ==
    reqs' = [reqs EXCEPT ![p] =
                IF keep THEN [op |-> "done", of |-> rq, resp |-> r] ELSE Idle]

Free(p) == reqs[p].op \in {"idle", "done"}

At(p, op, pc) == reqs[p].op = op /\ reqs[p].pc = pc

Goto(p, r) == reqs' = [reqs EXCEPT ![p] = r]

(***************************************************************************)
(* create_invite                                                           *)
(***************************************************************************)
create_invite(p, keep, cap, u, invitee, ce, cd) ==
    LET rq == Request("create_invite", u, 0) IN
    /\ Free(p)
    /\ UNCHANGED <<items, itemSeq, shareVars, apiVars>>
    /\ IF Email(u) = Email(invitee)
       THEN /\ Finish(p, keep, rq,
                      Redirect(SettingsInvite, "error", <<"You cannot invite yourself.">>))
            /\ UNCHANGED <<collabs, collabSeq>>
       ELSE /\ collabSeq < cap
            /\ collabSeq' = collabSeq + 1
            /\ collabs' = collabs @@ (collabSeq + 1 :>
                   [owner |-> u, collaborator |-> NoUser,
                    can_edit |-> ce, can_delete |-> cd, is_active |-> TRUE,
                    accepted_at |-> Null, revoked_at |-> Null])
            /\ Finish(p, keep, rq, Redirect(SettingsInvite, "success", <<"Invite created.">>))

(***************************************************************************)
(* revoke_invite                                                           *)
(***************************************************************************)
revoke_invite_get(p, keep, u, pk) ==
    /\ Free(p)
    /\ UNCHANGED <<collabs, collabSeq, items, itemSeq, shareVars, apiVars>>
    /\ IF OwnInvite(pk, u) /\ collabs[pk].is_active
       THEN Goto(p, [op |-> "revoke_invite", pc |-> "revoke", user |-> u, pk |-> pk])
       ELSE Finish(p, keep, Request("revoke_invite", u, pk),
                   Redirect(SettingsInvite, "error",
                            <<"Failed to revoke invite: ", NoCollabMatches>>))

revoke_invite_revoke(p, keep) ==
    /\ At(p, "revoke_invite", "revoke")
    /\ UNCHANGED <<collabSeq, items, itemSeq, shareVars, apiVars>>
    /\ LET pk == reqs[p].pk
           rq == Request("revoke_invite", reqs[p].user, pk) IN
       IF pk \in DOMAIN collabs
       THEN /\ collabs' = [collabs EXCEPT ![pk] = revoke(@)]
            /\ Finish(p, keep, rq, Redirect(SettingsInvite, "success", <<"Invite revoked.">>))
       ELSE /\ UNCHANGED collabs
            /\ Finish(p, keep, rq, Redirect(SettingsInvite, "error",
                                            <<"Failed to revoke invite: ", DatabaseError>>))

(***************************************************************************)
(* accept_invite                                                           *)
(***************************************************************************)
\* get_object_or_404(token=, is_active=True) and the checks on the row read.
\* A row's token is unique and never changes: it is modelled by the row's pk.
accept_invite_get(p, keep, u, token) ==
    LET rq == Request("accept_invite", u, token) IN
    /\ Free(p)
    /\ UNCHANGED <<collabs, collabSeq, items, itemSeq, shareVars, apiVars>>
    /\ IF ~(token \in DOMAIN collabs /\ collabs[token].is_active)
       THEN Finish(p, keep, rq, Redirect(List, "error",
                                         <<"Failed to accept invite: ", NoCollabMatches>>))
       ELSE LET invite == collabs[token] IN
            IF invite.accepted_at # Null
            THEN IF u = Anonymous
                 THEN Finish(p, keep, rq, Redirect(Login, "", <<>>))
                 ELSE Finish(p, keep, rq, Redirect(ListUrl(invite.owner), "", <<>>))
            ELSE IF u = Anonymous
            THEN Finish(p, keep, rq, Redirect(Login, "", <<>>))
            ELSE IF u = invite.owner
            THEN Finish(p, keep, rq, Redirect(SettingsInvite, "error",
                                              <<"You cannot accept your own invite.">>))
            ELSE Goto(p, [op |-> "accept_invite", pc |-> "existing", user |-> u,
                          pk |-> token, owner |-> invite.owner,
                          can_edit |-> invite.can_edit, can_delete |-> invite.can_delete,
                          existing |-> 0])

\* existing = InventoryCollab.objects.filter(...).first()
accept_invite_existing(p) ==
    /\ At(p, "accept_invite", "existing")
    /\ UNCHANGED <<collabs, collabSeq, items, itemSeq, shareVars, apiVars>>
    /\ LET found == ActiveCollabs(reqs[p].owner, reqs[p].user) IN
       IF found # {}
       THEN Goto(p, [reqs[p] EXCEPT !.pc = "overwrite", !.existing = Min(found)])
       ELSE Goto(p, [reqs[p] EXCEPT !.pc = "mark_accepted"])

\* existing.can_edit = invite.can_edit; existing.can_delete = invite.can_delete;
\* existing.save(update_fields=["can_edit", "can_delete"])
MutOverwriteOr(row, invite) ==
    [row EXCEPT !.can_edit = @ \/ invite.can_edit, !.can_delete = @ \/ invite.can_delete]
Overwrite(row, invite) ==
    [row EXCEPT !.can_edit = invite.can_edit, !.can_delete = invite.can_delete]

accept_invite_overwrite(p, keep) ==
    /\ At(p, "accept_invite", "overwrite")
    /\ UNCHANGED <<collabSeq, items, itemSeq, shareVars, apiVars>>
    /\ LET ex == reqs[p].existing IN
       IF ex \in DOMAIN collabs
       THEN /\ collabs' = [collabs EXCEPT ![ex] = Overwrite(@, reqs[p])]
            /\ Goto(p, [reqs[p] EXCEPT !.pc = "revoke"])
       ELSE /\ UNCHANGED collabs
            /\ Finish(p, keep, Request("accept_invite", reqs[p].user, reqs[p].pk),
                      Redirect(List, "error",
                               <<"Failed to accept invite: ", DatabaseError>>))

\* invite.revoke() after the overwrite
accept_invite_revoke(p, keep) ==
    /\ At(p, "accept_invite", "revoke")
    /\ UNCHANGED <<collabSeq, items, itemSeq, shareVars, apiVars>>
    /\ LET pk == reqs[p].pk
           rq == Request("accept_invite", reqs[p].user, pk) IN
       IF pk \in DOMAIN collabs
       THEN /\ collabs' = [collabs EXCEPT ![pk] = revoke(@)]
            /\ Finish(p, keep, rq, Redirect(ListUrl(reqs[p].owner), "info",
                                            <<"Your permissions have been updated.">>))
       ELSE /\ UNCHANGED collabs
            /\ Finish(p, keep, rq, Redirect(List, "error",
                                            <<"Failed to accept invite: ", DatabaseError>>))

\* invite.mark_accepted(request.user)
accept_invite_mark_accepted(p, keep) ==
    /\ At(p, "accept_invite", "mark_accepted")
    /\ UNCHANGED <<collabSeq, items, itemSeq, shareVars, apiVars>>
    /\ LET pk == reqs[p].pk
           rq == Request("accept_invite", reqs[p].user, pk) IN
       IF pk \notin DOMAIN collabs
       THEN /\ UNCHANGED collabs
            /\ Finish(p, keep, rq, Redirect(List, "error",
                                            <<"Failed to accept invite: ", DatabaseError>>))
       ELSE LET row == mark_accepted(collabs[pk], reqs[p].user) IN
            IF UniqActiveOwnerCollaborator(collabs, pk, row)
            THEN /\ collabs' = [collabs EXCEPT ![pk] = row]
                 /\ Finish(p, keep, rq, Redirect(ListUrl(reqs[p].owner), "success",
                                                 <<"You now have access.">>))
            ELSE /\ UNCHANGED collabs
                 /\ Finish(p, keep, rq, Redirect(List, "error",
                                                 <<"Failed to accept invite: ", IntegrityError>>))

(***************************************************************************)
(* update_invite                                                           *)
(***************************************************************************)
update_invite_get(p, keep, u, pk) ==
    LET rq == Request("update_invite", u, pk) IN
    /\ Free(p)
    /\ UNCHANGED <<collabs, collabSeq, items, itemSeq, shareVars, apiVars>>
    /\ IF ~OwnInvite(pk, u)
       THEN Finish(p, keep, rq, Redirect(SettingsInvite, "error",
                                         <<"Failed to update permissions: ", NoCollabMatches>>))
       ELSE IF ~collabs[pk].is_active
       THEN Finish(p, keep, rq, Redirect(SettingsInvite, "error",
                                         <<"Cannot edit a revoked invite.">>))
       ELSE Goto(p, [op |-> "update_invite", pc |-> "save", user |-> u, pk |-> pk])

\* invite.save(update_fields=["can_edit", "can_delete"]) with the posted flags
update_invite_save(p, keep, ce, cd) ==
    /\ At(p, "update_invite", "save")
    /\ UNCHANGED <<collabSeq, items, itemSeq, shareVars, apiVars>>
    /\ LET pk == reqs[p].pk
           rq == Request("update_invite", reqs[p].user, pk) IN
       IF pk \in DOMAIN collabs
       THEN /\ collabs' = [collabs EXCEPT ![pk].can_edit = ce, ![pk].can_delete = cd]
            /\ Finish(p, keep, rq, Redirect(SettingsInvite, "success", <<"Permissions updated.">>))
       ELSE /\ UNCHANGED collabs
            /\ Finish(p, keep, rq, Redirect(SettingsInvite, "error",
                                            <<"Failed to update permissions: ", DatabaseError>>))

(***************************************************************************)
(* purge_invite                                                            *)
(***************************************************************************)
MutPurgeAnyState(row) == FALSE
PurgeRefused(row) == row.is_active

purge_invite_get(p, keep, u, pk) ==
    LET rq == Request("purge_invite", u, pk) IN
    /\ Free(p)
    /\ UNCHANGED <<collabs, collabSeq, items, itemSeq, shareVars, apiVars>>
    /\ IF ~OwnInvite(pk, u)
       THEN Finish(p, keep, rq, Redirect(SettingsInvite, "error",
                                         <<"Failed to delete invite: ", NoCollabMatches>>))
       ELSE IF PurgeRefused(collabs[pk])
       THEN Finish(p, keep, rq, Redirect(SettingsInvite, "error",
                                         <<"You can only delete revoked invites.">>))
       ELSE Goto(p, [op |-> "purge_invite", pc |-> "delete", user |-> u, pk |-> pk])

\* invite.delete(): DELETE ... WHERE id = pk (no error when the row is gone)
purge_invite_delete(p, keep) ==
    /\ At(p, "purge_invite", "delete")
    /\ UNCHANGED <<collabSeq, items, itemSeq, shareVars, apiVars>>
    /\ collabs' = [k \in DOMAIN collabs \ {reqs[p].pk} |-> collabs[k]]
    /\ Finish(p, keep, Request("purge_invite", reqs[p].user, reqs[p].pk),
              Redirect(SettingsInvite, "success", <<"Revoked invite removed.">>))

(***************************************************************************)
(* Access control guard (views/helpers.py)                                 *)
(***************************************************************************)
\* get_owner_from_request: <<"ok", owner>>, or <<"404", text>> for Http404(text)
get_owner_from_request(viewer, owner_id) ==
    IF owner_id = NoParam THEN <<"ok", viewer>>
    ELSE IF owner_id \notin Users THEN <<"404", "Owner not found">>
    ELSE IF owner_id = viewer THEN <<"ok", owner_id>>
    ELSE IF ActiveCollabs(owner_id, viewer) # {} THEN <<"ok", owner_id>>
    ELSE <<"404", "Not allowed to view this inventory">>

\* can_edit(viewer, owner), with get_collab_record inlined (.first() is the
\* row with the lowest pk)
MutCanEditIgnoresFlag(viewer, owner) ==
    viewer = owner \/ ActiveCollabs(owner, viewer) # {}
can_edit(viewer, owner) ==
    \/ viewer = owner
    \/ /\ ActiveCollabs(owner, viewer) # {}
       /\ collabs[Min(ActiveCollabs(owner, viewer))].can_edit

\* can_delete(viewer, owner)
can_delete(viewer, owner) ==
    \/ viewer = owner
    \/ /\ ActiveCollabs(owner, viewer) # {}
       /\ collabs[Min(ActiveCollabs(owner, viewer))].can_delete

\* History, for the properties only: whether an active accepted collaboration
\* (owner, viewer) with the flag set is in the table now.
Granted(owner, viewer, flag) ==
    \E k \in DOMAIN collabs :
        /\ collabs[k].owner = owner /\ collabs[k].collaborator = viewer
        /\ collabs[k].is_active /\ collabs[k].accepted_at # Null
        /\ IF flag = "can_edit" THEN collabs[k].can_edit ELSE collabs[k].can_delete

(***************************************************************************)
(* InventoryItem                                                           *)
(***************************************************************************)
\* InventoryItemForm.is_valid(): InventoryItemForm.clean and, through the
\* model form, the field validators and InventoryItem.clean
FormValid(form) ==
    /\ form.quantity_total >= 0
    /\ form.quantity_used >= 0
    /\ form.quantity_used <= form.quantity_total

\* form.errors, as the names of its fields: InventoryItemForm.clean puts an
\* error on quantity_used if it exceeds quantity_total, and the model's
\* validators, run by the form, one on each negative quantity
FormErrors(form) ==
    (IF form.quantity_total < 0 THEN <<"quantity_total">> ELSE <<>>)
    \o (IF form.quantity_used > form.quantity_total \/ form.quantity_used < 0
        THEN <<"quantity_used">> ELSE <<>>)

\* the request with the method and the form that its last step read
Submitted(rq, method, form) ==
    [op |-> rq.op, user |-> rq.user, arg |-> rq.arg, method |-> method, form |-> form]

MutItemConstraintsNoUnique(tbl, pk, row) == row.quantity_used <= row.quantity_total

\* unique_user_part_color and quantity_used_lte_total for the row about to be
\* written under pk (InventoryItem.save runs full_clean, then the database
\* checks the same constraints)
ItemConstraints(tbl, pk, row) ==
    /\ row.quantity_used <= row.quantity_total
    /\ \A k \in DOMAIN tbl \ {pk} :
          ~(/\ tbl[k].user = row.user
            /\ tbl[k].part_id = row.part_id
            /\ tbl[k].color = row.color)

\* two rows with the same (user, part_id, color)
SameKey(a, b) == a.user = b.user /\ a.part_id = b.part_id /\ a.color = b.color

\* The rows that the import served in slot q has written inside its
\* transaction.atomic() and not committed (none if q serves no import).
Uncommitted(q) == IF reqs[q].op = "import_csv" THEN reqs[q].writes ELSE <<>>

\* The database makes the write of row under pk by slot p wait while another
\* transaction holds an uncommitted write of that pk or of that key.
Locked(p, pk, row) ==
    \E q \in Slots \ {p} : \E k \in DOMAIN Uncommitted(q) :
        k = pk \/ SameKey(Uncommitted(q)[k], row)

ItemRow(user, form) ==
    [user |-> user, name |-> form.name, part_id |-> form.part_id, color |-> form.color,
     quantity_total |-> form.quantity_total, quantity_used |-> form.quantity_used,
     storage_location |-> form.storage_location, image_url |-> form.image_url,
     notes |-> form.notes]

ErrorOccurred(text) == Redirect(List, "error", <<"An error occurred: ", text>>)

(***************************************************************************)
(* item_create                                                             *)
(***************************************************************************)
\* owner = get_owner_from_request(request); for the owner's own request
\* can_edit reads nothing, so the handler is at its form next
item_create_owner(p, keep, u, owner_id) ==
    LET rq == Request("item_create", u, owner_id)
        got == get_owner_from_request(u, owner_id) IN
    /\ Free(p)
    /\ UNCHANGED <<collabs, collabSeq, items, itemSeq, shareVars, apiVars>>
    /\ IF got[1] = "404"
       THEN Finish(p, keep, rq, ErrorOccurred(got[2]))
       ELSE Goto(p, [op |-> "item_create", pc |-> IF got[2] = u THEN "form" ELSE "can_edit",
                     user |-> u, arg |-> owner_id, owner |-> got[2],
                     granted |-> FALSE])

\* if not can_edit(request.user, owner): return HttpResponseForbidden(...)
item_create_can_edit(p, keep) ==
    /\ At(p, "item_create", "can_edit")
    /\ UNCHANGED <<collabs, collabSeq, items, itemSeq, shareVars, apiVars>>
    /\ IF can_edit(reqs[p].user, reqs[p].owner)
       THEN Goto(p, [reqs[p] EXCEPT !.pc = "form",
                        !.granted = Granted(reqs[p].owner, reqs[p].user, "can_edit")])
       ELSE Finish(p, keep, Request("item_create", reqs[p].user, reqs[p].arg),
                   Forbidden("You do not have permission to add items here."))

\* the form: GET renders it, POST validates it and saves item with user = owner
\* (method and form are the request's; nothing before this step reads them)
item_create_form(p, keep, cap, method, form) ==
    LET r == reqs[p]
        rq == Submitted(Request("item_create", r.user, r.arg), method, form)
        row == ItemRow(r.owner, form) IN
    /\ At(p, "item_create", "form")
    /\ method = "POST" => ~Locked(p, itemSeq + 1, row)
    /\ UNCHANGED <<collabs, collabSeq, shareVars, apiVars>>
    /\ IF method = "GET"
       THEN /\ UNCHANGED <<items, itemSeq>>
            /\ Finish(p, keep, rq, Render("item_form.html", <<>>, {}))
       ELSE IF ~FormValid(form)
       THEN /\ UNCHANGED <<items, itemSeq>>
            /\ Finish(p, keep, rq, Render("item_form.html", FormErrors(form), {}))
       ELSE IF ~ItemConstraints(items, itemSeq + 1, row)
       THEN /\ UNCHANGED <<items, itemSeq>>
            /\ Finish(p, keep, rq, ErrorOccurred("unique_user_part_color"))
       ELSE /\ itemSeq < cap
            /\ itemSeq' = itemSeq + 1
            /\ items' = items @@ (itemSeq + 1 :> row)
            /\ Finish(p, keep, rq, Redirect(ListUrl(r.owner), "success", <<"Item added.">>))

(***************************************************************************)
(* item_update                                                             *)
(***************************************************************************)
\* item = get_object_or_404(InventoryItem, pk=pk); owner = item.user
item_update_get(p, keep, u, pk) ==
    /\ Free(p)
    /\ UNCHANGED <<collabs, collabSeq, items, itemSeq, shareVars, apiVars>>
    /\ IF pk \notin DOMAIN items
       THEN Finish(p, keep, Request("item_update", u, pk), ErrorOccurred(NoItemMatches))
       ELSE Goto(p, [op |-> "item_update",
                     pc |-> IF items[pk].user = u THEN "form" ELSE "can_edit",
                     user |-> u, arg |-> pk, owner |-> items[pk].user,
                     granted |-> FALSE])

item_update_can_edit(p, keep) ==
    /\ At(p, "item_update", "can_edit")
    /\ UNCHANGED <<collabs, collabSeq, items, itemSeq, shareVars, apiVars>>
    /\ IF can_edit(reqs[p].user, reqs[p].owner)
       THEN Goto(p, [reqs[p] EXCEPT !.pc = "form",
                        !.granted = Granted(reqs[p].owner, reqs[p].user, "can_edit")])
       ELSE Finish(p, keep, Request("item_update", reqs[p].user, reqs[p].arg),
                   Forbidden("You do not have permission to edit items here."))

\* form.save(): Model.save() of the instance read by the get, with the
\* form's fields: an UPDATE by pk, and an INSERT under that pk when the
\* UPDATE matches no row
item_update_form(p, keep, method, form) ==
    LET r == reqs[p]
        rq == Submitted(Request("item_update", r.user, r.arg), method, form)
        row == ItemRow(r.owner, form) IN
    /\ At(p, "item_update", "form")
    /\ method = "POST" => ~Locked(p, r.arg, row)
    /\ UNCHANGED <<collabs, collabSeq, itemSeq, shareVars, apiVars>>
    /\ IF method = "GET"
       THEN /\ UNCHANGED items
            /\ Finish(p, keep, rq, Render("item_form.html", <<>>, {}))
       ELSE IF ~FormValid(form)
       THEN /\ UNCHANGED items
            /\ Finish(p, keep, rq, Render("item_form.html", FormErrors(form), {}))
       ELSE IF ~ItemConstraints(items, r.arg, row)
       THEN /\ UNCHANGED items
            /\ Finish(p, keep, rq, ErrorOccurred("unique_user_part_color"))
       ELSE /\ items' = [k \in DOMAIN items \cup {r.arg} |->
                            IF k = r.arg THEN row ELSE items[k]]
            /\ Finish(p, keep, rq, Redirect(ListUrl(r.owner), "success", <<"Item updated.">>))

(***************************************************************************)
(* item_delete                                                             *)
(***************************************************************************)
item_delete_get(p, keep, u, pk) ==
    /\ Free(p)
    /\ UNCHANGED <<collabs, collabSeq, items, itemSeq, shareVars, apiVars>>
    /\ IF pk \notin DOMAIN items
       THEN Finish(p, keep, Request("item_delete", u, pk), ErrorOccurred(NoItemMatches))
       ELSE Goto(p, [op |-> "item_delete",
                     pc |-> IF items[pk].user = u THEN "delete" ELSE "can_delete",
                     user |-> u, arg |-> pk, owner |-> items[pk].user,
                     granted |-> FALSE])

\* if not can_delete(request.user, owner): messages.error(...); redirect
item_delete_can_delete(p, keep) ==
    /\ At(p, "item_delete", "can_delete")
    /\ UNCHANGED <<collabs, collabSeq, items, itemSeq, shareVars, apiVars>>
    /\ IF can_delete(reqs[p].user, reqs[p].owner)
       THEN Goto(p, [reqs[p] EXCEPT !.pc = "delete",
                        !.granted = Granted(reqs[p].owner, reqs[p].user, "can_delete")])
       ELSE Finish(p, keep, Request("item_delete", reqs[p].user, reqs[p].arg),
                   Redirect(ListUrl(reqs[p].owner), "error",
                            <<"You don't have permission to delete items in this inventory.">>))

\* if request.method == "POST": item.delete()
item_delete_delete(p, keep, method) ==
    LET r == reqs[p]
        rq == Request("item_delete", r.user, r.arg) IN
    /\ At(p, "item_delete", "delete")
    /\ (method = "POST" /\ r.arg \in DOMAIN items) => ~Locked(p, r.arg, items[r.arg])
    /\ UNCHANGED <<collabs, collabSeq, itemSeq, shareVars, apiVars>>
    /\ IF method = "POST"
       THEN /\ items' = [k \in DOMAIN items \ {r.arg} |-> items[k]]
            /\ Finish(p, keep, rq, Redirect(ListUrl(r.owner), "success", <<"Item deleted.">>))
       ELSE /\ UNCHANGED items
            /\ Finish(p, keep, rq, Redirect(ListUrl(r.owner), "", <<>>))

(***************************************************************************)
(* inventory_list                                                          *)
(***************************************************************************)
\* owner = get_owner_from_request(request); an Http404 is caught by the
\* handler's except Exception, which flashes str(e) and redirects
inventory_list_owner(p, keep, u, owner_id) ==
    LET rq == Request("inventory_list", u, owner_id)
        got == get_owner_from_request(u, owner_id) IN
    /\ Free(p)
    /\ UNCHANGED <<collabs, collabSeq, items, itemSeq, shareVars, apiVars>>
    /\ IF got[1] = "404"
       THEN Finish(p, keep, rq, ErrorOccurred(got[2]))
       ELSE Goto(p, [op |-> "inventory_list", pc |-> "render", user |-> u,
                     arg |-> owner_id, owner |-> got[2]])

\* the page: InventoryItem.objects.filter(user=owner)
inventory_list_render(p, keep) ==
    /\ At(p, "inventory_list", "render")
    /\ UNCHANGED <<collabs, collabSeq, items, itemSeq, shareVars, apiVars>>
    /\ Finish(p, keep, Request("inventory_list", reqs[p].user, reqs[p].arg),
              Render("inventory_list.html", <<>>,
                     {k \in DOMAIN items : items[k].user = reqs[p].owner}))

(***************************************************************************)
(* manage.py purge_revoked_records (the InventoryCollab part)               *)
(***************************************************************************)
\* old_collabs = filter(is_active=False, revoked_at__isnull=False,
\* revoked_at__lt=cutoff)
PurgeableCollabs ==
    {k \in DOMAIN collabs : ~collabs[k].is_active /\ collabs[k].revoked_at # Null}

\* old_collabs.delete(); old: the rows revoked before the cutoff
purge_collabs(old) ==
    /\ old # {} /\ old \subseteq PurgeableCollabs
    /\ collabs' = [k \in DOMAIN collabs \ old |-> collabs[k]]
    /\ UNCHANGED <<collabSeq, items, itemSeq, reqs, shareVars, apiVars>>

(***************************************************************************)
(* InventoryShare                                                          *)
(***************************************************************************)
MaxTokens == 2                            \* share tokens ever generated
MaxClock == 2                             \* the clock stops here
MaxAccesses == 1                          \* a public access starts while access_count is at most this
MaxLimit == 1                             \* the largest max_access_count set

MultipleShares == "get() returned more than one InventoryShare"

\* render(request, template, status=status) of the public share view
RenderStatus(template, code, shown) ==
    [status |-> code, to |-> <<>>, msg |-> <<template, <<>>>>, shown |-> shown]
ServerError == RenderStatus("errors/500.html", 500, {})
ShareExpired == RenderStatus("inventory/share_expired.html", 410, {})

\* InventoryShare.is_expired of the row object `share` at time t
MutExpiredAboveLimit(share, t) ==
    \/ ~share.is_active
    \/ share.expires_at # Null /\ t > share.expires_at[1]
    \/ /\ share.max_access_count # Null
       /\ share.max_access_count[1] # 0
       /\ share.access_count > share.max_access_count[1]
is_expired(share, t) ==
    \/ ~share.is_active
    \/ share.expires_at # Null /\ t > share.expires_at[1]
    \/ /\ share.max_access_count # Null
       /\ share.max_access_count[1] # 0
       /\ share.access_count >= share.max_access_count[1]

\* InventoryShare.revoke: the UPDATE of save(update_fields=['is_active',
\* 'revoked_at']) applied to the stored row
revoke_share(row, t) == [row EXCEPT !.is_active = FALSE, !.revoked_at = <<t>>]

\* InventoryShare.record_access: the UPDATE that save(update_fields=
\* ['access_count', 'last_accessed_at']) sends for access_count =
\* F('access_count') + 1, applied to the stored row; share is the row object
\* that the request holds.  last_accessed_at, which the same UPDATE writes
\* and nothing ever reads, is not in the rows.
MutIncrementInPython(row, share) ==
    [row EXCEPT !.access_count = share.access_count + 1]
record_access(row, share) ==
    [row EXCEPT !.access_count = row.access_count + 1]

\* filter(user=user, is_active=True)
ActiveShares(user) ==
    {k \in DOMAIN shares : shares[k].user = user /\ shares[k].is_active}

\* filter(token=token, is_active=True)
MutSharesByTokenAnyState(token) ==
    {k \in DOMAIN shares : shares[k].token = token}
SharesByToken(token) ==
    {k \in DOMAIN shares : shares[k].token = token /\ shares[k].is_active}

\* the row that update_or_create inserts on the create path
NewShare(user, token) ==
    [user |-> user, token |-> token, is_active |-> TRUE, expires_at |-> Null,
     revoked_at |-> Null, access_count |-> 0, max_access_count |-> Null]

\* the update path of update_or_create: setattr(obj, 'token', token); obj.save()
MutRefreshKeepsToken(row, token) == row
RefreshToken(row, token) == [row EXCEPT !.token = token]

ShareCreated == Redirect(SettingsSharing, "success", <<"Share link created successfully.">>)
ShareCreateFailed(text) ==
    Redirect(SettingsSharing, "error", <<"Failed to create share link: ", text>>)
ShareRevoked == Redirect(SettingsSharing, "success", <<"Share link revoked.">>)
ShareRevokeFailed(text) ==
    Redirect(SettingsSharing, "error", <<"Failed to revoke share link: ", text>>)

(***************************************************************************)
(* create_share_link                                                       *)
(***************************************************************************)
\* token = get_random_string(32) (a token never produced before: 62^32
\* values), then the lookup of update_or_create.  With one active row the
\* lookup is a SELECT ... FOR UPDATE inside transaction.atomic, so the
\* token is replaced in the same step; with none the INSERT is a later
\* statement.
create_share_link_get(p, keep, cap, u, method) ==
    LET rq == Request("create_share_link", u, 0)
        token == tokenSeq + 1
        found == ActiveShares(u) IN
    /\ Free(p)
    /\ UNCHANGED <<collabs, collabSeq, items, itemSeq, shareSeq, now, apiVars>>
    /\ IF method # "POST"
       THEN /\ Finish(p, keep, rq, Forbidden("POST required"))
            /\ UNCHANGED <<shares, tokenSeq>>
       ELSE /\ tokenSeq < cap
            /\ tokenSeq' = token
            /\ IF Cardinality(found) > 1
               THEN /\ Finish(p, keep, rq, ShareCreateFailed(MultipleShares))
                    /\ UNCHANGED shares
               ELSE IF found # {}
               THEN /\ shares' = [shares EXCEPT ![Min(found)] = RefreshToken(@, token)]
                    /\ Finish(p, keep, rq, ShareCreated)
               ELSE /\ Goto(p, [op |-> "create_share_link", pc |-> "create",
                                user |-> u, token |-> token])
                    /\ UNCHANGED shares

\* the create path of update_or_create: INSERT
create_share_link_create(p, keep) ==
    LET r == reqs[p]
        rq == Request("create_share_link", r.user, 0) IN
    /\ At(p, "create_share_link", "create")
    /\ UNCHANGED <<collabs, collabSeq, items, itemSeq, tokenSeq, now, apiVars>>
    /\ shareSeq' = shareSeq + 1
    /\ shares' = shares @@ (shareSeq + 1 :> NewShare(r.user, r.token))
    /\ Finish(p, keep, rq, ShareCreated)

(***************************************************************************)
(* revoke_share_link                                                       *)
(***************************************************************************)
\* active_shares = filter(user=request.user, is_active=True), evaluated when
\* the loop starts
revoke_share_link_get(p, keep, u, method) ==
    LET rq == Request("revoke_share_link", u, 0) IN
    /\ Free(p)
    /\ UNCHANGED <<collabs, collabSeq, items, itemSeq, shareVars, apiVars>>
    /\ IF method # "POST"
       THEN Finish(p, keep, rq, Forbidden("POST required"))
       ELSE IF ActiveShares(u) = {}
       THEN Finish(p, keep, rq, ShareRevoked)
       ELSE Goto(p, [op |-> "revoke_share_link", pc |-> "revoke", user |-> u,
                     todo |-> ActiveShares(u)])

\* one turn of the loop: share.revoke()
revoke_share_link_revoke(p, keep) ==
    LET r == reqs[p]
        rq == Request("revoke_share_link", r.user, 0)
        pk == Min(r.todo) IN
    /\ At(p, "revoke_share_link", "revoke")
    /\ UNCHANGED <<collabs, collabSeq, items, itemSeq, shareSeq, tokenSeq, now, apiVars>>
    /\ IF pk \notin DOMAIN shares
       THEN /\ Finish(p, keep, rq, ShareRevokeFailed(DatabaseError))
            /\ UNCHANGED shares
       ELSE /\ shares' = [shares EXCEPT ![pk] = revoke_share(@, now)]
            /\ IF r.todo = {pk}
               THEN Finish(p, keep, rq, ShareRevoked)
               ELSE Goto(p, [r EXCEPT !.todo = @ \ {pk}])

(***************************************************************************)
(* shared_inventory                                                        *)
(***************************************************************************)
\* share = get_object_or_404(InventoryShare, token=token, is_active=True);
\* the Http404 is caught by the handler's except Exception
shared_inventory_get(p, keep, cap, token) ==
    LET rq == Request("shared_inventory", Anonymous, token)
        found == SharesByToken(token) IN
    /\ Free(p)
    /\ \A k \in DOMAIN shares : shares[k].access_count <= cap
    /\ UNCHANGED <<collabs, collabSeq, items, itemSeq, shareVars, apiVars>>
    /\ IF found = {}
       THEN Finish(p, keep, rq, ServerError)
       ELSE Goto(p, [op |-> "shared_inventory", pc |-> "is_expired", arg |-> token,
                     pk |-> Min(found), share |-> shares[Min(found)]])

\* if share.is_expired(): share.revoke(); return 410
\* share.record_access() up to its UPDATE
shared_inventory_is_expired(p, keep) ==
    LET r == reqs[p]
        rq == Request("shared_inventory", Anonymous, r.arg) IN
    /\ At(p, "shared_inventory", "is_expired")
    /\ UNCHANGED <<collabs, collabSeq, items, itemSeq, shareSeq, tokenSeq, now, apiVars>>
    /\ IF r.pk \notin DOMAIN shares
       THEN /\ Finish(p, keep, rq, ServerError)
            /\ UNCHANGED shares
       ELSE IF is_expired(r.share, now)
       THEN /\ shares' = [shares EXCEPT ![r.pk] = revoke_share(@, now)]
            /\ Finish(p, keep, rq, ShareExpired)
       ELSE /\ shares' = [shares EXCEPT ![r.pk] = record_access(@, r.share)]
            /\ Goto(p, [r EXCEPT !.pc = "render"])

\* self.refresh_from_db(), then the page of the owner's items
shared_inventory_render(p, keep) ==
    LET r == reqs[p]
        rq == Request("shared_inventory", Anonymous, r.arg) IN
    /\ At(p, "shared_inventory", "render")
    /\ UNCHANGED <<collabs, collabSeq, items, itemSeq, shareVars, apiVars>>
    /\ IF r.pk \notin DOMAIN shares
       THEN Finish(p, keep, rq, ServerError)
       ELSE Finish(p, keep, rq,
                   RenderStatus("inventory/shared_inventory.html", 200,
                                {k \in DOMAIN items : items[k].user = r.share.user}))

(***************************************************************************)
(* The environment of the share link                                       *)
(***************************************************************************)
\* expires_at and max_access_count have no view: they are written through
\* the ORM on a stored row
share_limits(pk, expires_at, max_access_count) ==
    /\ pk \in DOMAIN shares
    /\ shares[pk].expires_at # expires_at \/ shares[pk].max_access_count # max_access_count
    /\ shares' = [shares EXCEPT ![pk].expires_at = expires_at,
                                ![pk].max_access_count = max_access_count]
    /\ UNCHANGED <<collabs, collabSeq, items, itemSeq, shareSeq, tokenSeq, now, reqs, apiVars>>

\* time passes
Tick ==
    /\ now < MaxClock
    /\ now' = now + 1
    /\ UNCHANGED <<collabs, collabSeq, items, itemSeq, shares, shareSeq, tokenSeq, reqs, apiVars>>

\* manage.py purge_revoked_records (the InventoryShare part):
\* cutoff_date = timezone.now() - timedelta(days=days); old_shares.delete()
PurgeableShares(days) ==
    {k \in DOMAIN shares : /\ ~shares[k].is_active
                           /\ shares[k].revoked_at # Null
                           /\ shares[k].revoked_at[1] < now - days}

purge_shares(days) ==
    /\ days >= 1
    /\ PurgeableShares(days) # {}
    /\ shares' = [k \in DOMAIN shares \ PurgeableShares(days) |-> shares[k]]
    /\ UNCHANGED <<collabs, collabSeq, items, itemSeq, shareSeq, tokenSeq, now, reqs, apiVars>>

(***************************************************************************)
(* The rate limiter of the lookup API                                      *)
(***************************************************************************)
LOOKUP_LIMIT_PER_MIN == 60
LOOKUP_LIMIT_PER_IP == 120
LOOKUP_WINDOW_SECONDS == 60
MaxOver == 1                              \* a call starts while its user's counter is below the limit plus this
RaceWindow == 1                           \* a concurrent call starts when the counter is within this of the limit

Addresses == {"10.0.0.1"}                 \* get_client_ip(request)
Missing == -1                             \* cache.get found no entry

\* bucket = int(time.time() // LOOKUP_WINDOW_SECONDS)
Bucket == now \div LOOKUP_WINDOW_SECONDS
UserKey(user_id) == <<"rl:lookup:user", user_id, Bucket>>
IpKey(ip) == <<"rl:lookup:ip", ip, Bucket>>

\* The cache is the database cache (settings.CACHES): add and set are one
\* statement each; incr is the get followed by the set of BaseCache.incr.
CacheAdd(c, key, value) == IF key \in DOMAIN c THEN c ELSE c @@ (key :> value)
CacheGet(c, key) == IF key \in DOMAIN c THEN c[key] ELSE Missing
CacheSet(c, key, value) ==
    [k \in DOMAIN c \cup {key} |-> IF k = key THEN value ELSE c[k]]

\* the value that incr writes after it has read val; a missing entry makes
\* incr raise ValueError, and _rate_limit_ok then sets the entry to 1
Incremented(val) == IF val = Missing THEN 1 ELSE val + 1

\* history: one more call that returned True is counted under the keys
Count(h, keys) ==
    [k \in DOMAIN h \cup keys |->
        (IF k \in DOMAIN h THEN h[k] ELSE 0) + (IF k \in keys THEN 1 ELSE 0)]

RateRequest(r) == [op |-> "_rate_limit_ok", user |-> r.user, arg |-> r.ip]

\* bucket = ...; cache.add(user_key, 0, timeout=LOOKUP_WINDOW_SECONDS)
\* (cap, from: a call starts while the user's counter is in from .. limit +
\* cap - 1; observed: the counters the call found are kept for its response)
rate_limit_user_add(p, observed, cap, from, user_id, ip) ==
    /\ Free(p)
    /\ CacheGet(counters, UserKey(user_id)) < LOOKUP_LIMIT_PER_MIN + cap
    /\ CacheGet(counters, UserKey(user_id)) >= from
    /\ counters' = CacheAdd(counters, UserKey(user_id), 0)
    /\ Goto(p, [op |-> "_rate_limit_ok", pc |-> "user_get", user |-> user_id, ip |-> ip,
                user_key |-> UserKey(user_id), ip_key |-> IpKey(ip), val |-> 0,
                before |-> IF observed
                           THEN <<CacheGet(counters, UserKey(user_id)),
                                  CacheGet(counters, IpKey(ip))>>
                           ELSE Null])
    /\ UNCHANGED <<collabs, collabSeq, items, itemSeq, shareVars, allowed, catalogVars, configVars>>

\* cache.incr(user_key): the read
rate_limit_user_get(p) ==
    /\ At(p, "_rate_limit_ok", "user_get")
    /\ Goto(p, [reqs[p] EXCEPT !.pc = "user_set",
                               !.val = CacheGet(counters, reqs[p].user_key)])
    /\ UNCHANGED <<collabs, collabSeq, items, itemSeq, shareVars, apiVars>>

\* cache.incr(user_key): the write; if user_current > LOOKUP_LIMIT_PER_MIN:
\* return False
rate_limit_user_set(p, keep) ==
    LET r == reqs[p]
        user_current == Incremented(r.val) IN
    /\ At(p, "_rate_limit_ok", "user_set")
    /\ counters' = CacheSet(counters, r.user_key, user_current)
    /\ IF user_current > LOOKUP_LIMIT_PER_MIN
       THEN Finish(p, keep, RateRequest(r), [ok |-> FALSE, before |-> r.before])
       ELSE Goto(p, [r EXCEPT !.pc = "ip_add"])
    /\ UNCHANGED <<collabs, collabSeq, items, itemSeq, shareVars, allowed, catalogVars, configVars>>

\* cache.add(ip_key, 0, timeout=LOOKUP_WINDOW_SECONDS)
rate_limit_ip_add(p) ==
    /\ At(p, "_rate_limit_ok", "ip_add")
    /\ counters' = CacheAdd(counters, reqs[p].ip_key, 0)
    /\ Goto(p, [reqs[p] EXCEPT !.pc = "ip_get"])
    /\ UNCHANGED <<collabs, collabSeq, items, itemSeq, shareVars, allowed, catalogVars, configVars>>

\* cache.incr(ip_key): the read
rate_limit_ip_get(p) ==
    /\ At(p, "_rate_limit_ok", "ip_get")
    /\ Goto(p, [reqs[p] EXCEPT !.pc = "ip_set",
                               !.val = CacheGet(counters, reqs[p].ip_key)])
    /\ UNCHANGED <<collabs, collabSeq, items, itemSeq, shareVars, apiVars>>

\* cache.incr(ip_key): the write; if ip_current > LOOKUP_LIMIT_PER_IP: return
\* False; return True
rate_limit_ip_set(p, keep) ==
    LET r == reqs[p]
        ip_current == Incremented(r.val) IN
    /\ At(p, "_rate_limit_ok", "ip_set")
    /\ counters' = CacheSet(counters, r.ip_key, ip_current)
    /\ IF ip_current > LOOKUP_LIMIT_PER_IP
       THEN /\ Finish(p, keep, RateRequest(r), [ok |-> FALSE, before |-> r.before])
            /\ UNCHANGED allowed
       ELSE /\ Finish(p, keep, RateRequest(r), [ok |-> TRUE, before |-> r.before])
            /\ allowed' = Count(allowed, {r.user_key, r.ip_key})
    /\ UNCHANGED <<collabs, collabSeq, items, itemSeq, shareVars, catalogVars, configVars>>

(***************************************************************************)
(* lookup_part                                                             *)
(***************************************************************************)
ELEMENT_ID_MIN_LENGTH == 6
MaxLookups == 2                           \* a lookup starts while its user's counter is below this

\* Strings that the code takes apart are sequences of one-character strings.
Digit == {"0", "1", "2", "3", "4", "5", "6", "7", "8", "9"}
Letter == {"a", "b", "c", "d", "e", "f", "g", "h", "i", "j", "k", "l", "m",
           "n", "o", "p", "q", "r", "s", "t", "u", "v", "w", "x", "y", "z",
           "A", "B", "C", "D", "E", "F", "G", "H", "I", "J", "K", "L", "M",
           "N", "O", "P", "Q", "R", "S", "T", "U", "V", "W", "X", "Y", "Z"}
Space == {" ", "\n"}                      \* the whitespace of the model's strings

All(s, chars) == \A i \in 1..Len(s) : s[i] \in chars

\* str.strip()
RECURSIVE Strip(_)
Strip(s) ==
    IF s = <<>> THEN s
    ELSE IF Head(s) \in Space THEN Strip(Tail(s))
    ELSE IF s[Len(s)] \in Space THEN Strip(SubSeq(s, 1, Len(s) - 1))
    ELSE s

\* part_id.isdigit() and len(part_id) >= ELEMENT_ID_MIN_LENGTH
is_element_id(part_id) ==
    LET s == Strip(part_id) IN
    s # <<>> /\ All(s, Digit) /\ Len(s) >= ELEMENT_ID_MIN_LENGTH

MutTokenDropsSeparators(raw) == SelectSeq(raw, LAMBDA ch : ch \in Digit \cup Letter)

\* re.fullmatch(r'[0-9A-Za-z]+', token)
single_part_token(raw) ==
    LET token == Strip(raw) IN
    IF token # <<>> /\ All(token, Digit \cup Letter) THEN token ELSE <<>>

\* re.fullmatch(r'(\d+)[A-Za-z]+', token)
digits_if_suffix(token) ==
    LET cuts == {k \in 1..(Len(token) - 1) :
                    /\ All(SubSeq(token, 1, k), Digit)
                    /\ All(SubSeq(token, k + 1, Len(token)), Letter)} IN
    IF cuts = {} THEN token ELSE SubSeq(token, 1, CHOOSE k \in cuts : TRUE)

\* What the outside world answers to the calls of one request.
ApiOutcomes == {"ok", "notfound", "status", "timeout"}
PartName == "Brick 2 x 4"
PartImage == "https://cdn.rebrickable.com/media/parts/3001.jpg"
ScrapedName == "Brick 2 x 4 (BrickLink)"
ColorName == "Red"
\* what a service can answer instead: a name, a scraped name and a colour name
\* with tags around them, a URL that is no http(s) URL, and a part number
\* with a tag after it
RawName == "<b>Brick 2 x 4</b>"
RawScraped == "<i>Brick 2 x 4 (BrickLink)</i>"
RawColor == "<u>Red</u>"
RawImage == "javascript:alert(1)"
RawNum == <<"3", "0", "0", "1", "<", "b", ">">>
Asked == <<>>                             \* the body carries the part number of the URL

\* sanitize_text(text): bleach.clean(text, tags=[], strip=True).strip(), on
\* the names of the model
sanitize_text(text) ==
    CASE text = RawName -> PartName
      [] text = RawScraped -> ScrapedName
      [] text = RawColor -> ColorName
      [] OTHER -> text

\* sanitize_url(url): "" unless the URL matches ^https?:// (and names no
\* javascript:, data: or vbscript:), on the URLs of the model
sanitize_url(url) == IF url = PartImage THEN url ELSE ""
\* api, api2: the first and the second call of the parts API; name, img:
\* the body of the call that succeeds; bl, bl2: the name scraped by the first
\* and the second call of BrickLink ("" for none); num: the part_num of the
\* body; color: the colour name of an element's body.  Fields that no code
\* path reads under the other fields' values are fixed.
External ==
    {e \in [api : ApiOutcomes, api2 : {"ok", "timeout"}, name : {"", PartName},
            img : {"", PartImage}, bl : {"", ScrapedName}, bl2 : {"", ScrapedName},
            num : {Asked}, color : {ColorName}] :
        /\ e.api = "ok" => e.api2 = "ok"
        /\ e.bl # "" => e.bl2 = ""
        /\ e.api2 # "ok" => e.name = PartName /\ e.img = PartImage}

\* _rate_limit_ok(user_id, request), run without interruption
rate_limit_ok(c, user_id, ip) ==
    LET c1 == CacheAdd(c, UserKey(user_id), 0)
        user_current == Incremented(CacheGet(c1, UserKey(user_id)))
        c2 == CacheSet(c1, UserKey(user_id), user_current)
        c3 == CacheAdd(c2, IpKey(ip), 0)
        ip_current == Incremented(CacheGet(c3, IpKey(ip)))
        c4 == CacheSet(c3, IpKey(ip), ip_current) IN
    IF user_current > LOOKUP_LIMIT_PER_MIN THEN [ok |-> FALSE, cache |-> c2]
    ELSE [ok |-> ip_current <= LOOKUP_LIMIT_PER_IP, cache |-> c4]

\* Model.objects.update_or_create(key, defaults=row)
UpdateOrCreate(table, key, row) ==
    [k \in DOMAIN table \cup {key} |-> IF k = key THEN row ELSE table[k]]

Json(status, body) == [status |-> status, body |-> body]
json_err(msg, status) == Json(status, [ok |-> FALSE, error |-> msg])
Miss == [ok |-> TRUE, found |-> FALSE]

\* The outcome of a lookup: the response, the external calls issued, and
\* the tables as the lookup leaves them.
Outcome(resp, calls, c, l, ps, es, passed) ==
    [resp |-> resp, calls |-> calls, counters |-> c, lookups |-> l,
     parts |-> ps, elements |-> es, passed |-> passed]

\* The outcome with the history of its steps: whether the result cache
\* answered, the calls of the Rebrickable API among the external calls,
\* whether an image or a name was missing after the local catalog was read,
\* and whether the name was missing after the API step.
Traced(out, cached, api, limited, unnamed) ==
    out @@ [cached |-> cached, api |-> api, limited |-> limited, unnamed |-> unnamed]

\* ELEMENT PATH of lookup_part
lookup_element(raw, cache_key, user_id, ip, api_key, ext) ==
    IF raw \in DOMAIN elements
    THEN LET el == elements[raw]
             rbpart == parts[el.part]
             limited == rbpart.image_url = ""
             rl == IF limited THEN rate_limit_ok(counters, user_id, ip)
                   ELSE [ok |-> FALSE, cache |-> counters]
             called == limited /\ rl.ok /\ api_key # ""
             img == IF called /\ ext.api = "ok" THEN sanitize_url(ext.img)
                    ELSE rbpart.image_url
             data == [ok |-> TRUE, found |-> TRUE, resolved |-> "element",
                      name |-> rbpart.name, part_id |-> el.part, color |-> el.color,
                      image_url |-> img, element_id |-> raw] IN
         Traced(Outcome(Json(200, data), IF called THEN 1 ELSE 0, rl.cache,
                        CacheSet(lookups, cache_key, data),
                        IF img # rbpart.image_url
                        THEN [parts EXCEPT ![el.part].image_url = img] ELSE parts,
                        elements, IF rl.ok THEN 1 ELSE 0),
                FALSE, IF called THEN 1 ELSE 0, limited, rbpart.name = "")
    ELSE LET rl == rate_limit_ok(counters, user_id, ip)
             part_num == IF ext.name = "" THEN <<>>
                         ELSE IF ext.num = Asked THEN SubSeq(raw, 1, 4)
                         ELSE Strip(ext.num)
             name == sanitize_text(ext.name)
             part_img == sanitize_url(ext.img)
             color_name == sanitize_text(ext.color)
             data == [ok |-> TRUE, found |-> part_num # <<>>, resolved |-> "element",
                      name |-> name,
                      part_id |-> IF part_num # <<>> THEN part_num ELSE raw,
                      color |-> color_name, image_url |-> part_img, element_id |-> raw] IN
         Traced(
         IF ~rl.ok
         THEN Outcome(json_err("Rate limit exceeded. Please try again later.", 429),
                      0, rl.cache, lookups, parts, elements, 0)
         ELSE IF ext.api = "notfound"
         THEN Outcome(Json(200, Miss), 1, rl.cache,
                      CacheSet(lookups, cache_key, Miss), parts, elements, 1)
         ELSE IF ext.api \in {"status", "timeout"}
         THEN Outcome(json_err(ext.api, 502), 1, rl.cache, lookups, parts, elements, 1)
         ELSE Outcome(Json(200, data), 1, rl.cache,
                      CacheSet(lookups, cache_key, data),
                      IF part_num # <<>>
                      THEN UpdateOrCreate(parts, part_num,
                                          [name |-> name, image_url |-> part_img])
                      ELSE parts,
                      IF part_num # <<>>
                      THEN UpdateOrCreate(elements, raw,
                                          [part |-> part_num, color |-> color_name])
                      ELSE elements,
                      1),
         FALSE, IF rl.ok THEN 1 ELSE 0, TRUE, name = "")

\* fetch_rebrickable_part(token, api_key): the body found, or Null, and the
\* number of calls issued
fetch_rebrickable_part(token, ext) ==
    LET digits == digits_if_suffix(token) IN
    IF ext.api = "ok"
    THEN [res |-> [part_num |-> IF ext.num = Asked THEN token ELSE ext.num,
                   name |-> ext.name, part_img_url |-> ext.img],
          attempts |-> 1]
    ELSE IF digits # token
    THEN IF ext.api2 = "ok"
         THEN [res |-> [part_num |-> IF ext.num = Asked THEN digits ELSE ext.num,
                        name |-> ext.name, part_img_url |-> ext.img],
               attempts |-> 2]
         ELSE [res |-> Null, attempts |-> 2]
    ELSE [res |-> Null, attempts |-> 1]

\* the two calls of fetch_bricklink_name in lookup_part: the name found or
\* "", and the number of calls issued
fetch_bricklink_names(token, ext) ==
    LET digits == digits_if_suffix(token) IN
    IF ext.bl # "" THEN [name |-> sanitize_text(ext.bl), attempts |-> 1]
    ELSE IF digits # token THEN [name |-> sanitize_text(ext.bl2), attempts |-> 2]
    ELSE [name |-> "", attempts |-> 1]

Or(a, b) == IF a # "" THEN a ELSE b       \* Python's "a or b" on strings

\* PART PATH of lookup_part
lookup_token(raw, cache_key, user_id, ip, api_key, ext) ==
    LET token == single_part_token(raw)
        digits == digits_if_suffix(token)
        rb == IF token \in DOMAIN parts THEN token
              ELSE IF digits # token /\ digits \in DOMAIN parts THEN digits
              ELSE Null
        pn0 == IF rb # Null THEN rb ELSE token
        name0 == IF rb # Null THEN parts[rb].name ELSE ""
        img0 == IF rb # Null THEN parts[rb].image_url ELSE ""
        limited == name0 = "" \/ img0 = ""
        rl == IF limited THEN rate_limit_ok(counters, user_id, ip)
              ELSE [ok |-> FALSE, cache |-> counters]
        called == limited /\ rl.ok /\ api_key # ""
        api == IF called THEN fetch_rebrickable_part(token, ext)
               ELSE [res |-> Null, attempts |-> 0]
        pn == IF api.res # Null THEN api.res.part_num ELSE pn0
        name1 == IF api.res # Null THEN Or(name0, sanitize_text(api.res.name))
                 ELSE name0
        img == IF api.res # Null THEN Or(img0, sanitize_url(api.res.part_img_url))
               ELSE img0
        ps == IF api.res # Null
              THEN UpdateOrCreate(parts, pn, [name |-> name1, image_url |-> img])
              ELSE parts
        bl == IF name1 = "" THEN fetch_bricklink_names(token, ext)
              ELSE [name |-> "", attempts |-> 0]
        name == Or(name1, bl.name)
        data == [ok |-> TRUE, found |-> TRUE, resolved |-> "part", name |-> name,
                 part_id |-> pn, image_url |-> img]
        passed == IF rl.ok THEN 1 ELSE 0 IN
    IF token = <<>>
    THEN Traced(Outcome(Json(200, Miss), 0, counters, CacheSet(lookups, cache_key, Miss),
                        parts, elements, 0),
                FALSE, 0, FALSE, FALSE)
    ELSE IF name = "" /\ img = ""
    THEN Traced(Outcome(Json(200, Miss), api.attempts + bl.attempts, rl.cache,
                        CacheSet(lookups, cache_key, Miss), ps, elements, passed),
                FALSE, api.attempts, limited, name1 = "")
    ELSE Traced(Outcome(Json(200, data), api.attempts + bl.attempts, rl.cache,
                        CacheSet(lookups, cache_key, data), ps, elements, passed),
                FALSE, api.attempts, limited, name1 = "")

LookupRequest(u, part_id) == [op |-> "lookup_part", user |-> u, arg |-> part_id]

\* GET /lookup/?part_id=...  (budget: a lookup starts while the counter of
\* its user is below it)
lookup_part(p, keep, budget, u, ip, part_id, api_key, ext) ==
    LET raw == Strip(part_id)
        cache_key == <<"lookup", IF is_element_id(raw) THEN "element" ELSE "part", raw>>
        done == IF raw = <<>>
                THEN Traced(Outcome(json_err("Missing part_id", 400), 0,
                                    counters, lookups, parts, elements, 0),
                            FALSE, 0, FALSE, FALSE)
                ELSE IF cache_key \in DOMAIN lookups
                THEN Traced(Outcome(Json(200, lookups[cache_key]), 0,
                                    counters, lookups, parts, elements, 0),
                            TRUE, 0, FALSE, FALSE)
                ELSE IF is_element_id(raw)
                THEN lookup_element(raw, cache_key, u, ip, api_key, ext)
                ELSE lookup_token(raw, cache_key, u, ip, api_key, ext) IN
    /\ Free(p)
    /\ CacheGet(counters, UserKey(u)) < budget
    /\ \E out \in {done} :
          /\ counters' = out.counters
          /\ lookups' = out.lookups
          /\ parts' = out.parts
          /\ elements' = out.elements
          /\ allowed' = IF out.passed = 1 THEN Count(allowed, {UserKey(u), IpKey(ip)})
                        ELSE allowed
          /\ lastLookup' = [raw |-> part_id, calls |-> out.calls, cached |-> out.cached,
                             api |-> out.api, limited |-> out.limited,
                             unnamed |-> out.unnamed, passed |-> out.passed,
                             api_key |-> api_key]
          /\ Finish(p, keep, LookupRequest(u, part_id),
                    [status |-> out.resp.status, body |-> out.resp.body,
                     calls |-> out.calls])
    /\ UNCHANGED <<collabs, collabSeq, items, itemSeq, shareVars, configVars>>

(***************************************************************************)
(* bulk_update_missing_batch                                               *)
(***************************************************************************)
BULK_UPDATE_BATCH_SIZE_MIN == 1
BULK_UPDATE_BATCH_SIZE_MAX == 500
MaxBatch == 2                             \* the batch_size parameters run over 0 .. this
MaxItems == 2                             \* items created under the bulk-update specifications

Placeholder == "Unknown"                  \* the name an item carries until one is found

\* str.lower() and the database's iexact, on the names of the model
Lower(name) ==
    CASE name = "Unknown" -> "unknown"
      [] name = "UNKNOWN" -> "unknown"
      [] name = PartName -> "brick 2 x 4"
      [] name = ScrapedName -> "brick 2 x 4 (bricklink)"
      [] OTHER -> name

\* need_name = (item.name or "").strip().lower() == "unknown"
need_name(name) == Lower(name) = "unknown"

\* need_img = not (item.image_url or "").strip()
need_img(image_url) == image_url = ""

\* the first n of the ids, in ascending order: order_by("id")[:n]
RECURSIVE FirstIds(_, _)
FirstIds(ids, n) ==
    IF n = 0 \/ ids = {} THEN <<>>
    ELSE <<Min(ids)>> \o FirstIds(ids \ {Min(ids)}, n - 1)

\* batch_size = max(BULK_UPDATE_BATCH_SIZE_MIN, min(BULK_UPDATE_BATCH_SIZE_MAX, batch_size))
Clamp(size) ==
    LET capped == IF size <= BULK_UPDATE_BATCH_SIZE_MAX THEN size
                  ELSE BULK_UPDATE_BATCH_SIZE_MAX IN
    IF capped >= BULK_UPDATE_BATCH_SIZE_MIN THEN capped ELSE BULK_UPDATE_BATCH_SIZE_MIN

MutBatchQueryFromStart(user, after_id, batch_size) ==
    FirstIds({pk \in DOMAIN items :
                 /\ items[pk].user = user
                 /\ need_name(items[pk].name) \/ need_img(items[pk].image_url)
                 /\ items[pk].part_id # <<>>},
             batch_size)

\* qs = InventoryItem.objects.filter(user=...).filter(Q(name__iexact="unknown")
\*      | Q(image_url="")).exclude(part_id="").filter(id__gt=after_id)
\*      .order_by("id")[:batch_size]
BatchQuery(user, after_id, batch_size) ==
    FirstIds({pk \in DOMAIN items :
                 /\ items[pk].user = user
                 /\ need_name(items[pk].name) \/ need_img(items[pk].image_url)
                 /\ items[pk].part_id # <<>>
                 /\ pk > after_id},
             batch_size)

Range(s) == {s[i] : i \in 1..Len(s)}

BatchRequest(r) ==
    [op |-> "bulk_update_missing_batch", user |-> r.user, arg |-> r.arg,
     batch_size |-> r.batch_size, wrote |-> r.wrote]

\* The response of a batch.  selected: the ids that the query of the call
\* returned; seen: the ids that the earlier calls of the caller's loop
\* returned (both history).
BatchDone(done, last_id, selected, seen) ==
    [status |-> 200, done |-> done, last_id |-> last_id,
     selected |-> selected, seen |-> seen]
BatchFailed == [status |-> 500, error |-> "Internal server error"]

\* the ids that the loop which a call with this after_id continues has seen
SeenBy(p, after_id) ==
    IF /\ reqs[p].op = "done"
       /\ reqs[p].of.op = "bulk_update_missing_batch"
       /\ reqs[p].resp.status = 200
       /\ reqs[p].resp.last_id = after_id
    THEN reqs[p].resp.seen \cup Range(reqs[p].resp.selected)
    ELSE {}

\* POST /bulk-update/batch/: the parameters and the query
bulk_update_query(p, keep, budget, u, after_id, size) ==
    LET batch_size == Clamp(size)
        ids == BatchQuery(u, after_id, batch_size)
        r == [op |-> "bulk_update_missing_batch", pc |-> "item", user |-> u,
              arg |-> after_id, batch_size |-> batch_size,
              rows |-> [i \in 1..Len(ids) |-> [id |-> ids[i], item |-> items[ids[i]]]],
              idx |-> 1, seen |-> SeenBy(p, after_id), wrote |-> {}] IN
    /\ Free(p)
    /\ u # Anonymous
    /\ CacheGet(counters, UserKey(u)) < budget
    /\ IF ids = <<>>
       THEN Finish(p, keep, BatchRequest(r), BatchDone(TRUE, after_id, ids, r.seen))
       ELSE Goto(p, r)
    /\ UNCHANGED <<collabs, collabSeq, items, itemSeq, shareVars, apiVars>>

\* The start of one turn of "for item in items": what the item needs, its
\* token, and what RBPart has for the token (or for its digits).
BatchNeed(item) ==
    LET token == single_part_token(item.part_id)
        digits == digits_if_suffix(token)
        rb == IF token \in DOMAIN parts THEN token
              ELSE IF digits # token /\ digits \in DOMAIN parts THEN digits
              ELSE Null
        wanted == need_name(item.name) \/ need_img(item.image_url) IN
    [name |-> need_name(item.name), img |-> need_img(item.image_url),
     token |-> token, eligible |-> wanted /\ token # <<>>,
     part_name |-> IF rb # Null THEN parts[rb].name ELSE "",
     part_img |-> IF rb # Null THEN parts[rb].image_url ELSE ""]

\* ((need_name and not part_name) or (need_img and not part_img)) and api_key
BatchAsks(need, api_key) ==
    /\ need.eligible
    /\ (need.name /\ need.part_name = "") \/ (need.img /\ need.part_img = "")
    /\ api_key # ""

\* the parts API, if the rate limiter let the turn call it, then BrickLink:
\* the body of the API (or Null), and the name and image the turn has found
BatchLookup(need, called, ext) ==
    LET api == IF called THEN fetch_rebrickable_part(need.token, ext)
               ELSE [res |-> Null, attempts |-> 0]
        name1 == IF api.res # Null
                 THEN Or(need.part_name, sanitize_text(api.res.name))
                 ELSE need.part_name
        bl == IF need.eligible /\ need.name /\ name1 = ""
              THEN fetch_bricklink_names(need.token, ext)
              ELSE [name |-> "", attempts |-> 0] IN
    [res |-> api.res,
     part_name |-> Or(name1, bl.name),
     part_img |-> IF api.res # Null
                  THEN Or(need.part_img, sanitize_url(api.res.part_img_url))
                  ELSE need.part_img]

\* item.name = part_name, item.image_url = part_img as far as needed and
\* found; changed: whether the turn calls item.save()
BatchItem(item, need, found) ==
    LET named == need.eligible /\ need.name /\ found.part_name # ""
        imaged == need.eligible /\ need.img /\ found.part_img # "" IN
    [changed |-> named \/ imaged,
     item |-> [item EXCEPT !.name = IF named THEN found.part_name ELSE @,
                           !.image_url = IF imaged THEN found.part_img ELSE @]]

\* one turn of the loop of the batch in slot p: the lookup for the item and
\* item.save(), which commits at once (no transaction spans the loop); after
\* the last turn the response.  wrote: the rows that the call has saved
\* (history).
bulk_update_item(p, keep, ip, api_key, ext) ==
    /\ At(p, "bulk_update_missing_batch", "item")
    /\ \E r \in {reqs[p]} :
       \E id \in {r.rows[r.idx].id} :
       \E need \in {BatchNeed(r.rows[r.idx].item)} :
       \E rl \in {IF BatchAsks(need, api_key) THEN rate_limit_ok(counters, r.user, ip)
                  ELSE [ok |-> FALSE, cache |-> counters]} :
       \E found \in {BatchLookup(need, rl.ok, ext)} :
       \E saved \in {BatchItem(r.rows[r.idx].item, need, found)} :
       \E failed \in {saved.changed /\ ~ItemConstraints(items, id, saved.item)} :
          /\ saved.changed => ~Locked(p, id, saved.item)
          /\ counters' = rl.cache
          /\ allowed' = IF rl.ok THEN Count(allowed, {UserKey(r.user), IpKey(ip)})
                        ELSE allowed
          /\ parts' = IF found.res # Null
                      THEN UpdateOrCreate(parts, found.res.part_num,
                                          [name |-> sanitize_text(found.res.name),
                                           image_url |->
                                               sanitize_url(found.res.part_img_url)])
                      ELSE parts
          /\ items' = IF saved.changed /\ ~failed
                      THEN UpdateOrCreate(items, id, saved.item) ELSE items
          /\ IF failed THEN Finish(p, keep, BatchRequest(r), BatchFailed)
             ELSE IF r.idx = Len(r.rows)
             THEN Finish(p, keep, BatchRequest(r),
                         BatchDone(FALSE, id, [i \in 1..Len(r.rows) |-> r.rows[i].id],
                                   r.seen))
             ELSE Goto(p, [r EXCEPT !.idx = @ + 1,
                                   !.wrote = IF saved.changed
                                             THEN @ \cup {[id |-> id, item |-> saved.item]}
                                             ELSE @])
    /\ UNCHANGED <<collabs, collabSeq, itemSeq, shareVars, lookups, elements, lastLookup, configVars>>

(***************************************************************************)
(* import_csv                                                              *)
(***************************************************************************)
MaxRows == 2                              \* the rows of an imported file

MutModelErrorsNoClean(row) ==
    (IF row.quantity_total < 0 THEN <<"quantity_total">> ELSE <<>>)
    \o (IF row.quantity_used < 0 THEN <<"quantity_used">> ELSE <<>>)

\* InventoryItem.save() -> full_clean(): the names of the fields in the
\* ValidationError, from MinValueValidator(0) on both quantities and from
\* clean() (quantity_used > quantity_total)
ModelErrors(row) ==
    (IF row.quantity_total < 0 THEN <<"quantity_total">> ELSE <<>>)
    \o (IF row.quantity_used < 0 \/ row.quantity_used > row.quantity_total
        THEN <<"quantity_used">> ELSE <<>>)

\* The items as the transaction of the import reads them: the committed rows
\* and, over them, its own writes.
TxItems(r) == r.writes @@ items

\* the row of the file that the import is at, as an item of its user
ImportRow(r) == ItemRow(r.user, r.rows[r.idx])

ImportRequest(u, rows) == [op |-> "import_csv", user |-> u, arg |-> rows]

ImportFailed(errors) == Redirect(List, "error", <<"Import failed: ">> \o errors)

\* POST /import/: the file is read and process_import_rows opens its
\* transaction (the files of the model have at least one row, and every row
\* carries a part_id and both quantities)
import_csv(p, keep, u, method, rows) ==
    /\ Free(p)
    /\ u # Anonymous
    /\ rows # <<>>
    /\ UNCHANGED <<collabs, collabSeq, items, itemSeq, shareVars, apiVars>>
    /\ IF method # "POST"
       THEN Finish(p, keep, ImportRequest(u, <<>>), Redirect(List, "none", <<>>))
       ELSE Goto(p, [op |-> "import_csv", pc |-> "exists", user |-> u, rows |-> rows,
                     idx |-> 1, found |-> FALSE, writes |-> <<>>])

\* process_import_rows: queryset.exists() for the row
process_import_rows_exists(p) ==
    /\ At(p, "import_csv", "exists")
    /\ \E r \in {reqs[p]} :
          Goto(p, [r EXCEPT !.pc = "save",
                            !.found = \E pk \in DOMAIN TxItems(r) :
                                         SameKey(TxItems(r)[pk], ImportRow(r))])
    /\ UNCHANGED <<collabs, collabSeq, items, itemSeq, shareVars, apiVars>>

\* a in b, for strings
Contains(a, b) ==
    \E i \in 0..(Len(b) - Len(a)) : SubSeq(b, i + 1, i + Len(a)) = a

\* the notes of an updated item: imported notes that the item's notes do not
\* contain are appended on a new line, others replace them
MergeNotes(old, notes) ==
    IF notes = <<>> THEN old
    ELSE IF old # <<>> /\ ~Contains(notes, old) THEN Strip(old \o <<"\n">> \o notes)
    ELSE notes

\* the object that the row creates, or the first match with the row's
\* non-empty fields set; Null if exists() saw a match and first() finds none
ImportObject(r) ==
    LET row == r.rows[r.idx]
        first == {pk \in DOMAIN TxItems(r) : SameKey(TxItems(r)[pk], ImportRow(r))} IN
    IF ~r.found
    THEN [pk |-> itemSeq + 1,
          item |-> [ImportRow(r) EXCEPT !.name = Or(row.name, Placeholder)]]
    ELSE IF first = {} THEN Null
    ELSE [pk |-> Min(first),
          item |-> [TxItems(r)[Min(first)] EXCEPT
                       !.name = Or(row.name, @),
                       !.quantity_total = row.quantity_total,
                       !.quantity_used = row.quantity_used,
                       !.storage_location = Or(row.storage_location, @),
                       !.image_url = Or(row.image_url, @),
                       !.notes = MergeNotes(@, row.notes)]]

\* what InventoryItem.objects.create() or obj.save() raises for the object
ImportErrors(r, obj) ==
    IF obj = Null THEN <<"'NoneType' object has no attribute 'name'">>
    ELSE IF ModelErrors(obj.item) # <<>> THEN ModelErrors(obj.item)
    ELSE IF ~ItemConstraints(TxItems(r), obj.pk, obj.item) THEN <<"unique_user_part_color">>
    ELSE <<>>

MutRollbackKeepsWrites(r) == r.writes @@ items

\* the table after the atomic block was left by an exception: the writes of
\* the rows before are undone
Rollback(r) == items

\* process_import_rows: create or update for the row; an exception leaves the
\* atomic block, which rolls back, and import_csv reports it; after the last
\* row the block commits
process_import_rows_save(p, keep, cap) ==
    /\ At(p, "import_csv", "save")
    /\ \E r \in {reqs[p]} :
       \E obj \in {ImportObject(r)} :
       \E errors \in {ImportErrors(r, obj)} :
          IF errors # <<>>
          THEN /\ items' = Rollback(r)
               /\ UNCHANGED itemSeq
               /\ Finish(p, keep, ImportRequest(r.user, r.rows), ImportFailed(errors))
          ELSE /\ ~Locked(p, obj.pk, obj.item)
               /\ ~r.found => itemSeq < cap
               /\ itemSeq' = IF r.found THEN itemSeq ELSE itemSeq + 1
               /\ \E writes \in {(obj.pk :> obj.item) @@ r.writes} :
                     IF r.idx = Len(r.rows)
                     THEN /\ items' = writes @@ items
                          /\ Finish(p, keep, ImportRequest(r.user, r.rows),
                                    Redirect(List, "success", <<"Import complete">>))
                     ELSE /\ UNCHANGED items
                          /\ Goto(p, [r EXCEPT !.pc = "exists", !.idx = @ + 1,
                                               !.writes = writes])
    /\ UNCHANGED <<collabs, collabSeq, shareVars, apiVars>>

\* an import request, from its start to its response
ImportStep(p, keep, cap, u, files) ==
    \/ \E method \in {"GET", "POST"}, rows \in files : import_csv(p, keep, u, method, rows)
    \/ process_import_rows_exists(p)
    \/ process_import_rows_save(p, keep, cap)

(***************************************************************************)
(* export_csv                                                              *)
(***************************************************************************)
\* str(n), for a quantity of an item
RECURSIVE Str(_)
Str(n) ==
    LET d == <<"0", "1", "2", "3", "4", "5", "6", "7", "8", "9">>[(n % 10) + 1] IN
    IF n < 10 THEN <<d>> ELSE Str(n \div 10) \o <<d>>

\* int(s), where s.isdigit()
RECURSIVE ParseInt(_)
ParseInt(s) ==
    LET d == CHOOSE k \in 0..9 : Str(k) = <<s[Len(s)]>> IN
    IF Len(s) = 1 THEN d ELSE 10 * ParseInt(SubSeq(s, 1, Len(s) - 1)) + d

\* to_int(value, default)
to_int(value, default) ==
    IF Strip(value) # <<>> /\ All(Strip(value), Digit) THEN ParseInt(Strip(value)) ELSE default

\* s.replace(from, to), for characters
Replace(s, from, to) == [i \in 1..Len(s) |-> IF s[i] = from THEN to ELSE s[i]]

\* the cells that export_csv writes for an item
ExportRow(item) ==
    [name |-> item.name, part_id |-> item.part_id, color |-> item.color,
     quantity_total |-> Str(item.quantity_total),
     quantity_used |-> Str(item.quantity_used),
     storage_location |-> item.storage_location, image_url |-> item.image_url,
     notes |-> Strip(Replace(item.notes, "\n", " "))]

\* the sequences of the members of S, each once
Orders(S) ==
    {f \in [1..Cardinality(S) -> S] : \A i, j \in 1..Cardinality(S) : f[i] = f[j] => i = j}

ExportRequest(u) == [op |-> "export_csv", user |-> u, arg |-> 0]

\* GET /export/: the rows of the user's items, order_by('name'); the items of
\* the model that are exported share one name, so that their order is the
\* database's choice
export_csv(p, keep, u) ==
    /\ Free(p)
    /\ u # Anonymous
    /\ \E order \in Orders({pk \in DOMAIN items : items[pk].user = u}) :
          Finish(p, keep, ExportRequest(u),
                 [status |-> 200, to |-> <<>>, msg |-> <<"text/csv", <<>>>>, shown |-> {},
                  rows |-> [i \in DOMAIN order |-> ExportRow(items[order[i]])]])
    /\ UNCHANGED <<collabs, collabSeq, items, itemSeq, shareVars, apiVars>>

(***************************************************************************)
(* AppConfig                                                               *)
(***************************************************************************)
MaxSaves == 2                             \* AppConfig.save() calls of the admin form

\* the field defaults of a row that get_or_create inserts
DefaultConfig == [site_name |-> "BlockShelf"]

\* AppConfig.get_solo(): get_or_create(singleton_id=1)
get_solo == IF appconfig = Null THEN DefaultConfig ELSE appconfig

ConfigRequest == [op |-> "get_cached"]

\* AppConfig.get_cached(), first statement: cfg = cache.get("appconfig_solo");
\* a hit is returned.  saves: the saves that had completed when the call
\* began (history).
get_cached_get(p, keep) ==
    /\ Free(p)
    /\ IF configCache # Null
       THEN Finish(p, keep, ConfigRequest, configCache)
       ELSE Goto(p, [op |-> "get_cached", pc |-> "solo", saves |-> configSaves])
    /\ UNCHANGED <<collabs, collabSeq, items, itemSeq, shareVars, apiVars>>

\* if cfg is None: cfg = cls.get_solo()
get_cached_solo(p) ==
    /\ At(p, "get_cached", "solo")
    /\ appconfig' = get_solo
    /\ Goto(p, [reqs[p] EXCEPT !.pc = "set"] @@ [cfg |-> get_solo])
    /\ UNCHANGED <<collabs, collabSeq, items, itemSeq, shareVars, counters, allowed,
                   catalogVars, configCache, configSaves>>

\* cache.set("appconfig_solo", cfg, 300); return cfg
get_cached_set(p, keep) ==
    /\ At(p, "get_cached", "set")
    /\ configCache' = reqs[p].cfg
    /\ Finish(p, keep, ConfigRequest, reqs[p].cfg)
    /\ UNCHANGED <<collabs, collabSeq, items, itemSeq, shareVars, counters, allowed,
                   catalogVars, appconfig, configSaves>>

\* the cache drops the entry when its 300 seconds have passed
config_expire ==
    /\ configCache # Null
    /\ configCache' = Null
    /\ UNCHANGED <<collabs, collabSeq, items, itemSeq, shareVars, counters, allowed,
                   catalogVars, appconfig, configSaves, reqs>>

\* the saves that are running
Saving == {q \in Slots : reqs[q].op = "appconfig_save"}

\* POST of the admin tab: config = AppConfig.get_solo() and the bound form
handle_admin_config_tab(p, site_name) ==
    /\ Free(p)
    /\ configSaves + Cardinality(Saving) < MaxSaves
    /\ appconfig' = get_solo
    /\ Goto(p, [op |-> "appconfig_save", pc |-> "save",
                cfg |-> [get_solo EXCEPT !.site_name = site_name]])
    /\ UNCHANGED <<collabs, collabSeq, items, itemSeq, shareVars, counters, allowed,
                   catalogVars, configCache, configSaves>>

\* form.save() -> AppConfig.save(): super().save(*args, **kwargs)
appconfig_save(p) ==
    /\ At(p, "appconfig_save", "save")
    /\ appconfig' = reqs[p].cfg
    /\ Goto(p, [reqs[p] EXCEPT !.pc = "delete"])
    /\ UNCHANGED <<collabs, collabSeq, items, itemSeq, shareVars, counters, allowed,
                   catalogVars, configCache, configSaves>>

\* AppConfig.save(): cache.delete("appconfig_solo"), and the redirect
appconfig_save_delete(p, keep) ==
    /\ At(p, "appconfig_save", "delete")
    /\ configCache' = Null
    /\ configSaves' = configSaves + 1
    /\ Finish(p, keep, [op |-> "appconfig_save"],
              Redirect("settings?tab=admin", "success", <<"Site settings saved.">>))
    /\ UNCHANGED <<collabs, collabSeq, items, itemSeq, shareVars, counters, allowed,
                   catalogVars, appconfig>>

\* One step of a request that reads or saves the site configuration.
ConfigStep(p, keep, names) ==
    \/ get_cached_get(p, keep)
    \/ get_cached_solo(p)
    \/ get_cached_set(p, keep)
    \/ \E site_name \in names : handle_admin_config_tab(p, site_name)
    \/ appconfig_save(p)
    \/ appconfig_save_delete(p, keep)

Init ==
    /\ collabs = <<>>
    /\ collabSeq = 0
    /\ items = <<>>
    /\ itemSeq = 0
    /\ shares = <<>>
    /\ shareSeq = 0
    /\ tokenSeq = 0
    /\ now = 0
    /\ counters = <<>>
    /\ allowed = <<>>
    /\ lookups = <<>>
    /\ parts = <<>>
    /\ elements = <<>>
    /\ lastLookup = Null
    /\ appconfig = Null
    /\ configCache = Null
    /\ configSaves = 0
    /\ reqs = [p \in Slots |-> Idle]

\* One step of the invite request in slot p.  cap: the number of invites
\* ever created; owners: the users who send invites; guests: the clients
\* who open invite links; perms: the (can_edit, can_delete) pairs that are
\* posted.
CollabStep(p, keep, cap, owners, guests, perms) ==
    \/ \E u \in owners, v \in Users, f \in perms :
          create_invite(p, keep, cap, u, v, f[1], f[2])
    \/ \E u \in Users, pk \in 1..MaxCollabs : revoke_invite_get(p, keep, u, pk)
    \/ revoke_invite_revoke(p, keep)
    \/ \E u \in guests, token \in 1..MaxCollabs :
          accept_invite_get(p, keep, u, token)
    \/ accept_invite_existing(p)
    \/ accept_invite_overwrite(p, keep)
    \/ accept_invite_revoke(p, keep)
    \/ accept_invite_mark_accepted(p, keep)
    \/ \E u \in Users, pk \in 1..MaxCollabs : update_invite_get(p, keep, u, pk)
    \/ \E f \in perms : update_invite_save(p, keep, f[1], f[2])
    \/ \E u \in Users, pk \in 1..MaxCollabs : purge_invite_get(p, keep, u, pk)
    \/ purge_invite_delete(p, keep)

\* One step of the inventory request in slot p.  cap: the number of items
\* ever created; viewers: the users who send the requests; forms: the forms
\* posted.
ItemStep(p, keep, cap, viewers, forms) ==
    \/ \E u \in viewers, o \in Users \cup {NoParam, GhostId} : item_create_owner(p, keep, u, o)
    \/ item_create_can_edit(p, keep)
    \/ \E m \in {"GET", "POST"}, f \in forms : item_create_form(p, keep, cap, m, f)
    \/ \E u \in viewers, pk \in 1..cap : item_update_get(p, keep, u, pk)
    \/ item_update_can_edit(p, keep)
    \/ \E m \in {"GET", "POST"}, f \in forms : item_update_form(p, keep, m, f)
    \/ \E u \in viewers, pk \in 1..cap : item_delete_get(p, keep, u, pk)
    \/ item_delete_can_delete(p, keep)
    \/ \E m \in {"GET", "POST"} : item_delete_delete(p, keep, m)
    \/ \E u \in viewers, o \in Users \cup {NoParam, GhostId} :
          inventory_list_owner(p, keep, u, o)
    \/ inventory_list_render(p, keep)

\* The item requests of a user on their own inventory (no owner parameter):
\* the handlers go from the owner to the form without a permission lookup.
OwnItemStep(p, keep, cap, u, forms) ==
    \/ item_create_owner(p, keep, u, NoParam)
    \/ \E m \in {"GET", "POST"}, f \in forms : item_create_form(p, keep, cap, m, f)
    \/ \E pk \in 1..cap : item_update_get(p, keep, u, pk)
    \/ \E m \in {"GET", "POST"}, f \in forms : item_update_form(p, keep, m, f)
    \/ \E pk \in 1..cap : item_delete_get(p, keep, u, pk)
    \/ \E m \in {"GET", "POST"} : item_delete_delete(p, keep, m)

\* A posted form, with no storage location and no notes (notes are a
\* sequence of characters)
Form(name, part_id, color, quantity_total, quantity_used, image_url) ==
    [name |-> name, part_id |-> part_id, color |-> color,
     quantity_total |-> quantity_total, quantity_used |-> quantity_used,
     storage_location |-> "", image_url |-> image_url, notes |-> <<>>]

\* the form with a storage location and notes
Noted(form, storage_location, notes) ==
    [form EXCEPT !.storage_location = storage_location, !.notes = notes]

\* the fields that process_import_rows extracts from the cells of a row, which
\* rows_from_csv_bytes has stripped
ParseRow(cells) ==
    Noted(Form(cells.name, cells.part_id, cells.color,
               to_int(cells.quantity_total, 0), to_int(cells.quantity_used, 0),
               cells.image_url),
          cells.storage_location, Strip(cells.notes))

AllPerms == BOOLEAN \X BOOLEAN
DefaultPerms == {<<TRUE, FALSE>>}      \* the defaults of InventoryCollab.can_edit / can_delete

\* Requests served concurrently, interleaved statement by statement.
Next ==
    \/ \E p \in Slots : CollabStep(p, FALSE, MaxCollabs, {"alice", "bob"}, Users \cup {Anonymous}, DefaultPerms)
    \/ \E old \in SUBSET (1..MaxCollabs) : purge_collabs(old)

Spec == Init /\ [][Next]_vars

\* Requests served one at a time, each to completion, its response observed.
NextSeq ==
    \/ CollabStep("r1", TRUE, MaxCollabs, {"alice"}, Users \cup {Anonymous}, AllPerms)
    \/ Free("r1") /\ \E old \in SUBSET (1..MaxCollabs) : purge_collabs(old)

SpecSeq == Init /\ [][NextSeq]_vars

\* Inventory requests in slot r1 interleaved statement by statement with the
\* invite requests of owner alice in slot r2.
MaxGrants == 2                            \* invites created under SpecItems
MaxEdited == 1                            \* items created under SpecItems
EditForms == {Form("Brick 2 x 4", "3001", "Red", 1, 0, ""),
              Form("Brick 2 x 4", "3001", "Red", 2, 1, "")}
Guests == {"bob"}                          \* the users who open alice's invite links
Viewers == {"alice", "bob"}                \* the users who send inventory requests
SplitPerms == {<<TRUE, FALSE>>, <<FALSE, TRUE>>}

NextItems ==
    \/ ItemStep("r1", FALSE, MaxEdited, Viewers, EditForms)
    \/ CollabStep("r2", FALSE, MaxGrants, {"alice"}, Guests, SplitPerms)

SpecItems == Init /\ [][NextItems]_vars

\* The same, with the responses of the inventory requests observed.
NextItemsSeen ==
    \/ ItemStep("r1", TRUE, MaxEdited, Viewers, EditForms)
    \/ CollabStep("r2", FALSE, MaxGrants, {"alice"}, Guests, SplitPerms)

SpecItemsSeen == Init /\ [][NextItemsSeen]_vars

\* One step of the share-link request in slot p.  cap: the number of tokens
\* ever generated; accesses: the bound of access_count; users: the users
\* who manage a share link.
ShareStep(p, keep, cap, accesses, users) ==
    \/ \E u \in users, m \in {"GET", "POST"} : create_share_link_get(p, keep, cap, u, m)
    \/ create_share_link_create(p, keep)
    \/ \E u \in users, m \in {"GET", "POST"} : revoke_share_link_get(p, keep, u, m)
    \/ revoke_share_link_revoke(p, keep)
    \/ \E token \in 1..cap : shared_inventory_get(p, keep, accesses, token)
    \/ shared_inventory_is_expired(p, keep)
    \/ shared_inventory_render(p, keep)

\* the limits written on share rows: an access limit without expiry date,
\* an expiry date without access limit, or neither
ShareLimits ==
    {<<Null, <<n>>>> : n \in 1..MaxLimit} \cup {<<<<1>>, Null>>, <<Null, Null>>}

\* Share-link requests served one at a time, each to completion, its
\* response observed; between two requests time passes, limits are set and
\* the purge command runs.
NextShareSeq ==
    \/ ShareStep("r1", TRUE, MaxTokens, MaxAccesses, {"alice"})
    \/ Free("r1") /\ Tick
    \/ Free("r1") /\ \E pk \in 1..MaxTokens, l \in ShareLimits : share_limits(pk, l[1], l[2])
    \/ Free("r1") /\ purge_shares(1)

SpecShareSeq == Init /\ [][NextShareSeq]_vars


\* the limit written on share rows while requests race
RaceLimits == {<<Null, <<1>>>>}

\* Share-link requests served concurrently, interleaved statement by
\* statement, while an access limit is set on share rows.
NextShare ==
    \/ \E p \in Slots : ShareStep(p, FALSE, MaxTokens, MaxAccesses, {"alice"})
    \/ \E pk \in 1..MaxTokens, l \in RaceLimits : share_limits(pk, l[1], l[2])

SpecShare == Init /\ [][NextShare]_vars

\* The same, with the responses of slot r1 observed.
NextShareSeen ==
    \/ ShareStep("r1", TRUE, MaxTokens, MaxAccesses, {"alice"})
    \/ ShareStep("r2", FALSE, MaxTokens, MaxAccesses, {"alice"})
    \/ \E pk \in 1..MaxTokens, l \in RaceLimits : share_limits(pk, l[1], l[2])

SpecShareSeen == Init /\ [][NextShareSeen]_vars

\* One step of a call of the rate limiter in slot p.  cap: how far above
\* the limit the user's counter is when the last call starts; from: the
\* least value of the user's counter at which a call starts.
RateStep(p, keep, cap, from) ==
    \/ \E u \in {"alice"}, ip \in Addresses :
          rate_limit_user_add(p, keep, cap, from, u, ip)
    \/ rate_limit_user_get(p)
    \/ rate_limit_user_set(p, keep)
    \/ rate_limit_ip_add(p)
    \/ rate_limit_ip_get(p)
    \/ rate_limit_ip_set(p, keep)

\* Calls of the rate limiter one at a time, the result observed.
NextRateSeq == RateStep("r1", TRUE, MaxOver, Missing)

SpecRateSeq == Init /\ [][NextRateSeq]_vars

\* Calls of the rate limiter interleaved cache operation by cache operation:
\* one request after another in r1, and in r2 requests that arrive when the
\* user's counter is within RaceWindow of the limit.
NextRate ==
    \/ RateStep("r1", FALSE, MaxOver, Missing)
    \/ RateStep("r2", FALSE, MaxOver, LOOKUP_LIMIT_PER_MIN - RaceWindow)

SpecRate == Init /\ [][NextRate]_vars

\* The identifiers that the lookup requests of the model ask for.
Identifiers ==
    { <<"3", "0", "0", "1">>,                        \* a part number
      <<"3", "0", "0", "1", "b">>,                   \* a part number with a letter suffix
      <<"3", "0", "0", "1", "2", "6">>,              \* an element ID
      <<"3", "0", "0", "1", "&", "b">>,              \* two tokens joined by '&'
      <<"3", "0", "0", "1", " ", "b">>,              \* two tokens with a space between
      <<" ">> }                                      \* nothing but white space

\* For a part number without letter suffix each service is called once, and
\* the answers to second calls are not read.
SingleCall == {e \in External : (e.api = "ok" <=> e.api2 = "ok") /\ e.bl2 = ""}

\* The answers that a lookup of the identifier can read: none if no service
\* is called for it, those of first calls if it has no letter suffix.
Answers(part_id) ==
    IF single_part_token(part_id) = <<>>
    THEN {CHOOSE e \in SingleCall : TRUE}
    ELSE IF digits_if_suffix(single_part_token(part_id)) = single_part_token(part_id)
    THEN SingleCall
    ELSE External

\* Lookup requests served one at a time, the response observed.
NextLookup ==
    \E part_id \in Identifiers, ip \in Addresses, api_key \in {"", "key"} :
        \E ext \in Answers(part_id) :
            lookup_part("r1", TRUE, MaxLookups, "alice", ip, part_id, api_key, ext)

SpecLookup == Init /\ [][NextLookup]_vars

\* The forms of the bulk-update specifications: items that lack a name, an
\* image or both, one of them with two part numbers in part_id.
Part3001 == <<"3", "0", "0", "1">>
BulkForms ==
    {Form(Placeholder, Part3001, "Red", 1, 0, ""),
     Form(PartName, Part3001, "Blue", 1, 0, ""),
     Form("UNKNOWN", <<"3", "0", "0", "1", "&", "b">>, "Red", 2, 1, PartImage)}

\* One step of a batch in slot p.
BulkStep(p, keep, budget, after_ids, sizes, keys, answers) ==
    \/ \E after_id \in after_ids, size \in sizes :
          bulk_update_query(p, keep, budget, "alice", after_id, size)
    \/ \E ip \in Addresses, api_key \in keys, ext \in answers :
          bulk_update_item(p, keep, ip, api_key, ext)

\* Batches served one at a time, between them the owner's item requests.
NextBulkSeq ==
    \/ BulkStep("r1", TRUE, MaxLookups, 0..MaxItems, 0..MaxBatch, {"", "key"}, SingleCall)
    \/ Free("r1") /\ OwnItemStep("r2", FALSE, MaxItems, "alice", BulkForms)

SpecBulkSeq == Init /\ [][NextBulkSeq]_vars

\* The caller's loop: each call of the batch takes the last_id of the
\* response before it as its after_id, until a response has done = true or
\* is an error.
Cursor(p) ==
    IF reqs[p].op = "done" /\ reqs[p].of.op = "bulk_update_missing_batch"
    THEN reqs[p].resp.last_id ELSE 0

Calling(p) ==
    ~(/\ reqs[p].op = "done"
      /\ reqs[p].of.op = "bulk_update_missing_batch"
      /\ reqs[p].resp.status # 200 \/ reqs[p].resp.done)

\* In the loop an API key is configured, and the parts API answers with a
\* full body or not at all.
LoopAnswers == {e \in SingleCall : e.api \in {"ok", "timeout"} /\ e.name # "" /\ e.img # ""}

BulkCall ==
    /\ Calling("r1")
    /\ BulkStep("r1", TRUE, LOOKUP_LIMIT_PER_MIN, {Cursor("r1")}, 1..MaxBatch,
                {"key"}, LoopAnswers)

\* The loop in r1; between its calls the owner adds, edits and deletes items.
NextBulkLoop ==
    \/ BulkCall
    \/ Free("r1") /\ OwnItemStep("r2", FALSE, MaxItems, "alice", BulkForms)

\* The caller goes on calling, and the server serves each call to its end.
SpecBulkLoop == Init /\ [][NextBulkLoop]_vars /\ WF_vars(BulkCall)

\* Batches in r1 interleaved statement by statement with the owner's item
\* requests in r2.
NextBulk ==
    \/ BulkStep("r1", FALSE, MaxLookups, {0}, {MaxBatch}, {"", "key"}, SingleCall)
    \/ OwnItemStep("r2", FALSE, MaxEdited, "alice", BulkForms)

SpecBulk == Init /\ [][NextBulk]_vars

\* The forms of the batch specification: two items of one part that lack a
\* name, in two colours.
BatchForms ==
    {Form(Placeholder, Part3001, "Red", 1, 0, ""),
     Form(Placeholder, Part3001, "Blue", 1, 0, "")}

MaxRecreated == 3                         \* items created under SpecBatch

\* One observed batch at a time in r1, interleaved statement by statement
\* with the owner's creates and deletes in r2.
NextBatch ==
    \/ BulkStep("r1", TRUE, MaxLookups, {0}, {MaxBatch}, {"key"}, LoopAnswers)
    \/ OwnItemStep("r2", FALSE, MaxRecreated, "alice", BatchForms)

SpecBatch == Init /\ [][NextBatch]_vars

\* The forms of the quantity specification, with every pair of quantities in
\* -1 .. MaxQuantity, and its files of MaxRows rows in two colours with
\* quantity_total 0, of which only the last may have a quantity_used above it.
MaxQuantity == 1
QuantityForms ==
    {Form(Placeholder, Part3001, "Red", quantity_total, quantity_used, "") :
        quantity_total \in -1..MaxQuantity, quantity_used \in -1..MaxQuantity}
ImportRows ==
    {Form(Placeholder, Part3001, color, 0, quantity_used, "") :
        color \in {"Red", "Blue"}, quantity_used \in {0, MaxQuantity}}
ImportFiles ==
    {rows \in [1..MaxRows -> ImportRows] :
        \A i \in 1..(MaxRows - 1) : rows[i].quantity_used = 0}
MaxCalls == 1                             \* the batch calls of the specification

\* The owner's item requests, imports and batches, one request at a time, the
\* responses observed.
NextQuantities ==
    \/ OwnItemStep("r1", TRUE, MaxItems, "alice", QuantityForms)
    \/ ImportStep("r1", TRUE, MaxItems, "alice", ImportFiles)
    \/ BulkStep("r1", TRUE, MaxCalls, {0}, {MaxBatch}, {"key"}, LoopAnswers)

SpecQuantities == Init /\ [][NextQuantities]_vars

\* The creates, edits and deletes of alice and of bob in their own
\* inventories, the responses observed, while an import of alice is served.
UniqueForms == {Form(Placeholder, Part3001, color, 1, 0, "") : color \in {"Red", "Blue"}}
UniqueFiles == UNION {[1..n -> UniqueForms] : n \in 1..MaxRows}

NextUnique ==
    \/ \E u \in {"alice", "bob"} : OwnItemStep("r1", TRUE, MaxItems, u, UniqueForms)
    \/ ImportStep("r2", FALSE, MaxItems, "alice", UniqueFiles)

SpecUnique == Init /\ [][NextUnique]_vars

\* The imports of alice, the responses observed, while she creates, edits and
\* deletes items in another worker.
NextImport ==
    \/ ImportStep("r1", TRUE, MaxItems, "alice", ImportFiles)
    \/ OwnItemStep("r2", FALSE, MaxItems, "alice", UniqueForms)

SpecImport == Init /\ [][NextImport]_vars

\* The owner's item requests, exports and imports of the file just exported,
\* one request at a time. The items have one or two lines of notes or none.
NoteTexts == {<<>>, <<"a">>, <<"a", "\n", "b">>}
NotedForms ==
    {Noted(Form(PartName, Part3001, color, 10, 2, PartImage), storage_location, notes) :
        color \in {"Red", "Blue"}, storage_location \in {"", "Box 1"}, notes \in NoteTexts}

\* the last response is an export
Exported(p) == reqs[p].op = "done" /\ reqs[p].of.op = "export_csv"

MaxNotes == 3                             \* the characters of notes that are imported

\* the file of the last export, as rows_from_csv_bytes reads it
ExportedFile(p) ==
    IF /\ Exported(p) /\ reqs[p].resp.rows # <<>>
       /\ \A i \in DOMAIN reqs[p].resp.rows : Len(reqs[p].resp.rows[i].notes) <= MaxNotes
    THEN {[i \in DOMAIN reqs[p].resp.rows |-> ParseRow(reqs[p].resp.rows[i])]}
    ELSE {}

NextRoundTrip ==
    \/ OwnItemStep("r1", TRUE, MaxItems, "alice", NotedForms)
    \/ export_csv("r1", TRUE, "alice")
    \/ ImportStep("r1", TRUE, MaxItems, "alice", ExportedFile("r1"))

SpecRoundTrip == Init /\ [][NextRoundTrip]_vars

\* The site names that the admin form posts.
SiteNames == {"BlockShelf", "Bricks"}

\* Readers and the admin form in two workers, statement by statement.
NextConfig ==
    \/ \E p \in Slots : ConfigStep(p, TRUE, SiteNames)
    \/ config_expire

SpecConfig == Init /\ [][NextConfig]_vars

\* The same requests served one at a time.
NextConfigSeq ==
    \/ \E p \in Slots : (\A q \in Slots \ {p} : Free(q)) /\ ConfigStep(p, TRUE, SiteNames)
    \/ config_expire

SpecConfigSeq == Init /\ [][NextConfigSeq]_vars

\* Answers of services that are not trusted: every call succeeds, and each
\* string of the body or the page is the expected one or a raw one.
Untrusted ==
    [api : {"ok"}, api2 : {"ok"}, name : {"", PartName, RawName},
     img : {"", PartImage, RawImage}, bl : {"", ScrapedName, RawScraped}, bl2 : {""},
     num : {Asked, RawNum}, color : {ColorName, RawColor}]

\* a part number and an element ID
SanitizeIds == {Part3001, <<"3", "0", "0", "1", "2", "6">>}

\* Lookups and batches of alice, served one at a time with untrusted
\* answers, between them her item requests.
NextSanitize ==
    \/ \E part_id \in SanitizeIds, ip \in Addresses, ext \in Untrusted :
          lookup_part("r1", TRUE, MaxLookups, "alice", ip, part_id, "key", ext)
    \/ BulkStep("r1", TRUE, MaxLookups, {0}, {MaxBatch}, {"key"}, Untrusted)
    \/ OwnItemStep("r1", FALSE, MaxItems, "alice", BatchForms)

SpecSanitize == Init /\ [][NextSanitize]_vars

(***************************************************************************)
(* Properties                                                              *)
(***************************************************************************)
ActiveAccepted(tbl, k) == tbl[k].is_active /\ tbl[k].accepted_at # Null
Pending(row) == row.is_active /\ row.accepted_at = Null /\ row.collaborator = NoUser
Finishing(p) == reqs[p].op # "done" /\ reqs'[p].op = "done"
NotFound(prefix) == Redirect(SettingsInvite, "error", <<prefix, NoCollabMatches>>)

\* C1: in every reachable state, whatever the interleaving of the invite
\* requests, no two InventoryCollab rows of the same owner and the same
\* collaborator both have is_active = true and accepted_at set.
C1_OneActivePerPair ==
    \A j \in DOMAIN collabs, k \in DOMAIN collabs :
        (/\ ActiveAccepted(collabs, j) /\ ActiveAccepted(collabs, k)
         /\ collabs[j].owner = collabs[k].owner
         /\ collabs[j].collaborator = collabs[k].collaborator) => j = k

\* C1 witness: a second accept/revoke cycle of the same pair: one row of the
\* pair is accepted and active, another was accepted and is revoked.
C1_Witness ==
    \E j \in DOMAIN collabs, k \in DOMAIN collabs :
        /\ j # k
        /\ collabs[j].owner = collabs[k].owner
        /\ collabs[j].collaborator = collabs[k].collaborator
        /\ ActiveAccepted(collabs, j)
        /\ ~collabs[k].is_active /\ collabs[k].accepted_at # Null

Stepped(p) == reqs'[p] # reqs[p]

\* C2: an item is created or changed only by an item_create / item_update
\* request of its owner or of a user for whom an active accepted
\* collaboration with can_edit was in the table when the permission was
\* checked, and deleted only by an item_delete of the owner or of a user
\* with can_delete at the check; the check lets through exactly the holders
\* of the flag it asks for, and a refused request leaves every item alone.
C2_ItemsGuarded ==
    [][/\ \A k \in DOMAIN items' :
             (k \notin DOMAIN items \/ items'[k] # items[k]) =>
                 \E p \in Slots :
                    /\ Stepped(p)
                    /\ reqs[p].op \in {"item_create", "item_update"}
                    /\ reqs[p].user = items'[k].user \/ reqs[p].granted
       /\ \A k \in DOMAIN items \ DOMAIN items' :
             \E p \in Slots :
                /\ Stepped(p)
                /\ reqs[p].op = "item_delete"
                /\ reqs[p].user = items[k].user \/ reqs[p].granted
       /\ \A p \in Slots :
             /\ (Stepped(p) /\ reqs[p].op \in {"item_create", "item_update"}
                            /\ reqs[p].pc = "can_edit")
                => IF Granted(reqs[p].owner, reqs[p].user, "can_edit")
                   THEN reqs'[p].op = reqs[p].op /\ reqs'[p].pc = "form"
                   ELSE reqs'[p] = Idle /\ items' = items
             /\ (Stepped(p) /\ At(p, "item_delete", "can_delete"))
                => IF Granted(reqs[p].owner, reqs[p].user, "can_delete")
                   THEN reqs'[p].op = "item_delete" /\ reqs'[p].pc = "delete"
                   ELSE reqs'[p] = Idle /\ items' = items]_vars

\* C2 witness: a collaborator whose grant is can_edit without can_delete has
\* passed the edit check of an item of the owner and is about to save it.
C2_Witness ==
    /\ At("r1", "item_update", "form")
    /\ reqs["r1"].user # reqs["r1"].owner
    /\ reqs["r1"].granted
    /\ reqs["r1"].arg \in DOMAIN items
    /\ Granted(reqs["r1"].owner, reqs["r1"].user, "can_edit")
    /\ ~Granted(reqs["r1"].owner, reqs["r1"].user, "can_delete")

\* C5: an inventory_list request with ?owner=X of a viewer without an active
\* accepted collaboration with X gets the response that a request naming a
\* user that does not exist gets (same status, target and message), and the
\* page shows no item.
C5_DenialIndistinguishable ==
    [][\A p \in Slots :
          (/\ reqs'[p].op = "done" /\ Stepped(p)
           /\ reqs'[p].of.op = "inventory_list"
           /\ reqs'[p].of.arg # NoParam
           /\ reqs'[p].of.arg # reqs'[p].of.user
           /\ \/ reqs'[p].of.arg \notin Users
              \/ ~\E k \in DOMAIN collabs :
                     /\ ActiveAccepted(collabs, k)
                     /\ collabs[k].owner = reqs'[p].of.arg
                     /\ collabs[k].collaborator = reqs'[p].of.user)
          => reqs'[p].resp = ErrorOccurred("Owner not found")]_vars

\* C3: revoked is terminal: a row with is_active = false is, one step later,
\* either still there with is_active = false or deleted.
C3_RevokedIsTerminal ==
    [][\A k \in DOMAIN collabs :
          ~collabs[k].is_active =>
              (k \notin DOMAIN collabs' \/ ~collabs'[k].is_active)]_vars

\* C4: when accept_invite completes for a pending invite of owner O and a
\* user who holds an active accepted collaboration with O, that existing row
\* carries exactly the invite's can_edit / can_delete, the invite row is
\* revoked with no collaborator, and the pair still has one active row.
C4_AcceptOverwrites ==
    [][\A p \in Slots :
          (/\ reqs[p].op = "accept_invite" /\ Finishing(p)
           /\ reqs[p].pk \in DOMAIN collabs
           /\ Pending(collabs[reqs[p].pk])
           /\ \E e \in DOMAIN collabs :
                 /\ ActiveAccepted(collabs, e)
                 /\ collabs[e].owner = collabs[reqs[p].pk].owner
                 /\ collabs[e].collaborator = reqs[p].user)
          => LET pk == reqs[p].pk
                 held == {e \in DOMAIN collabs' :
                             /\ ActiveAccepted(collabs', e)
                             /\ collabs'[e].owner = collabs[pk].owner
                             /\ collabs'[e].collaborator = reqs[p].user}
             IN /\ Cardinality(held) = 1
                /\ \A e \in held :
                      /\ collabs'[e].can_edit = collabs[pk].can_edit
                      /\ collabs'[e].can_delete = collabs[pk].can_delete
                /\ pk \in DOMAIN collabs'
                /\ ~collabs'[pk].is_active
                /\ collabs'[pk].revoked_at # Null
                /\ collabs'[pk].collaborator = NoUser
                /\ pk \notin held]_vars

\* C4 witness: an accept that lowered a grant has completed: the invite is
\* revoked unaccepted, and the user's active row has neither permission.
C4_Witness ==
    /\ reqs["r1"].op = "done"
    /\ reqs["r1"].of.op = "accept_invite"
    /\ reqs["r1"].resp.msg[1] = "info"
    /\ LET pk == reqs["r1"].of.arg IN
       /\ pk \in DOMAIN collabs
       /\ ~collabs[pk].is_active /\ collabs[pk].collaborator = NoUser
       /\ ~collabs[pk].can_edit /\ ~collabs[pk].can_delete
       /\ \E e \in DOMAIN collabs :
             /\ ActiveAccepted(collabs, e)
             /\ collabs[e].collaborator = reqs["r1"].of.user
             /\ ~collabs[e].can_edit /\ ~collabs[e].can_delete

OwnerScoped == {"revoke_invite", "update_invite", "purge_invite"}
FailPrefix(op) ==
    CASE op = "revoke_invite" -> "Failed to revoke invite: "
      [] op = "update_invite" -> "Failed to update permissions: "
      [] op = "purge_invite" -> "Failed to delete invite: "

\* C6: a revoke_invite, update_invite or purge_invite request of a user who
\* does not own the row it names changes no InventoryCollab row and gets the
\* not-found response, which is also the response for a pk that has no row.
C6_CrossTenantNotFound ==
    [][\A p \in Slots :
          (/\ reqs'[p].op = "done" /\ reqs'[p] # reqs[p]
           /\ reqs'[p].of.op \in OwnerScoped
           /\ \/ reqs'[p].of.arg \notin DOMAIN collabs
              \/ collabs[reqs'[p].of.arg].owner # reqs'[p].of.user)
          => /\ collabs' = collabs
             /\ reqs'[p].resp = NotFound(FailPrefix(reqs'[p].of.op))]_vars

\* C6 witness: bob's purge of a revoked row of alice ended not-found, and the
\* row is still there.
C6_Witness ==
    /\ reqs["r1"].op = "done"
    /\ reqs["r1"].of.op = "purge_invite"
    /\ reqs["r1"].of.arg \in DOMAIN collabs
    /\ collabs[reqs["r1"].of.arg].owner # reqs["r1"].of.user
    /\ ~collabs[reqs["r1"].of.arg].is_active
    /\ reqs["r1"].resp = NotFound("Failed to delete invite: ")

ActiveSharesIn(tbl, user) == {k \in DOMAIN tbl : tbl[k].user = user /\ tbl[k].is_active}
ResolvesIn(tbl, token) == {k \in DOMAIN tbl : tbl[k].token = token /\ tbl[k].is_active}
LimitReached(row) ==
    /\ row.max_access_count # Null
    /\ row.max_access_count[1] >= 1
    /\ row.access_count >= row.max_access_count[1]
PastExpiry(row) == row.expires_at # Null /\ now > row.expires_at[1]
Sealed(row) == ~row.is_active /\ row.revoked_at # Null

\* C8: with requests served one at a time, a public access of an active
\* share whose token resolves reaches the expiry check; at the check, a share
\* with max_access_count = N >= 1 and no expiry date whose access_count is
\* below N gets access_count + 1, stays active and the access is answered
\* with the inventory page; once access_count has reached N the access is
\* answered with the expired page (410), access_count stays, and the row is
\* left with is_active = false and revoked_at set by the step that answers.
\* The first access after expires_at has passed seals the row the same way.
C8_LimitThenSealed ==
    [][\A p \in Slots :
          /\ (Stepped(p) /\ Free(p) /\ reqs'[p].op = "done"
                         /\ reqs'[p].of.op = "shared_inventory")
             => ResolvesIn(shares, reqs'[p].of.arg) = {}
          /\ (Stepped(p) /\ At(p, "shared_inventory", "is_expired"))
             => LET k == reqs[p].pk IN
                /\ k \in DOMAIN shares /\ k \in DOMAIN shares'
                /\ shares[k].is_active
                /\ IF LimitReached(shares[k]) \/ PastExpiry(shares[k])
                   THEN /\ reqs'[p].op = "done"
                        /\ reqs'[p].resp = ShareExpired
                        /\ shares'[k].access_count = shares[k].access_count
                        /\ Sealed(shares'[k])
                   ELSE /\ reqs'[p].op = "shared_inventory" /\ reqs'[p].pc = "render"
                        /\ shares'[k].access_count = shares[k].access_count + 1
                        /\ shares'[k].is_active
          /\ (Stepped(p) /\ At(p, "shared_inventory", "render"))
             => /\ reqs'[p].op = "done"
                /\ reqs'[p].resp.status = 200
                /\ reqs'[p].resp.msg[1] = "inventory/shared_inventory.html"
                /\ UNCHANGED shares]_vars

\* C8 witness: the access after the last one allowed by max_access_count
\* (the limit is MaxLimit, the share has no expiry date) has been answered
\* with the expired page; the row counts MaxLimit accesses and is sealed.
C8_Witness ==
    /\ reqs["r1"].op = "done"
    /\ reqs["r1"].of.op = "shared_inventory"
    /\ reqs["r1"].resp = ShareExpired
    /\ \E k \in DOMAIN shares :
          /\ shares[k].token = reqs["r1"].of.arg
          /\ shares[k].max_access_count = <<MaxLimit>>
          /\ shares[k].expires_at = Null
          /\ shares[k].access_count = MaxLimit
          /\ Sealed(shares[k])

\* C9: with requests served one at a time, every POST of create_share_link
\* succeeds and leaves its user with exactly one active share row: with no
\* active row it inserts one, with an active row it puts a new token on that
\* row, adds no row, and the token it replaced resolves to no row.
C9_CreateOrRefresh ==
    [][\A p \in Slots :
          (Stepped(p) /\ reqs'[p].op = "done"
                      /\ reqs'[p].of.op = "create_share_link")
          => LET u == reqs'[p].of.user
                 was == ActiveSharesIn(shares, u) IN
             \/ reqs'[p].resp = Forbidden("POST required") /\ UNCHANGED shares
             \/ /\ reqs'[p].resp = ShareCreated
                /\ Cardinality(ActiveSharesIn(shares', u)) = 1
                /\ IF was = {}
                   THEN /\ DOMAIN shares' = DOMAIN shares \cup {shareSeq + 1}
                        /\ shareSeq + 1 \notin DOMAIN shares
                        /\ ActiveSharesIn(shares', u) = {shareSeq + 1}
                        /\ \A k \in DOMAIN shares : shares'[k] = shares[k]
                   ELSE /\ DOMAIN shares' = DOMAIN shares
                        /\ ActiveSharesIn(shares', u) = was
                        /\ \A k \in was :
                              /\ shares'[k].token # shares[k].token
                              /\ ResolvesIn(shares', shares[k].token) = {}
                              /\ shares'[k] = [shares[k] EXCEPT !.token = shares'[k].token]
                        /\ \A k \in DOMAIN shares \ was : shares'[k] = shares[k]]_vars

\* C9 witness: the second create_share_link of a user has succeeded; there
\* is one share row, active, and it carries the second token.
C9_Witness ==
    /\ reqs["r1"].op = "done"
    /\ reqs["r1"].of.op = "create_share_link"
    /\ reqs["r1"].resp = ShareCreated
    /\ tokenSeq = 2
    /\ DOMAIN shares = {1}
    /\ shares[1].is_active /\ shares[1].token = 2

\* slot p reaches record_access on share row k in this step
Recording(p, k) ==
    /\ Stepped(p)
    /\ At(p, "shared_inventory", "is_expired")
    /\ reqs[p].pk = k
    /\ reqs'[p].op = "shared_inventory" /\ reqs'[p].pc = "render"

\* C10: in every interleaving, each public access that reaches record_access
\* raises the stored access_count of its share row by exactly one, whatever
\* count the request read before, and no other step changes the access_count
\* of a stored row: n accesses add exactly n.
C10_NoLostIncrement ==
    [][\A k \in DOMAIN shares :
          /\ (\E p \in Slots : Recording(p, k))
             => k \in DOMAIN shares'
                /\ shares'[k].access_count = shares[k].access_count + 1
          /\ (k \in DOMAIN shares' /\ ~\E p \in Slots : Recording(p, k))
             => shares'[k].access_count = shares[k].access_count]_vars

\* C10 witness: two accesses that both read access_count = 0 from the same
\* share row have both run record_access, and the row counts 2.
C10_Witness ==
    /\ At("r1", "shared_inventory", "render")
    /\ At("r2", "shared_inventory", "render")
    /\ reqs["r1"].pk = reqs["r2"].pk
    /\ reqs["r1"].share.access_count = 0
    /\ reqs["r2"].share.access_count = 0
    /\ reqs["r1"].pk \in DOMAIN shares
    /\ shares[reqs["r1"].pk].access_count = 2

C12_CountsBothThenDecides ==
    [][\A p \in Slots :
          (Stepped(p) /\ reqs'[p].op = "done" /\ reqs'[p].of.op = "_rate_limit_ok")
          => LET user_key == UserKey(reqs'[p].of.user)
                 ip_key == IpKey(reqs'[p].of.arg)
                 was(n) == IF reqs'[p].resp.before[n] = Missing THEN 0
                           ELSE reqs'[p].resp.before[n] IN
             /\ CacheGet(counters', user_key) = was(1) + 1
             /\ CacheGet(counters', ip_key) = was(2) + 1
             /\ reqs'[p].resp.ok <=> /\ CacheGet(counters', user_key) <= LOOKUP_LIMIT_PER_MIN
                                     /\ CacheGet(counters', ip_key) <= LOOKUP_LIMIT_PER_IP]_vars

\* C13: within one bucket, in every interleaving, the calls that returned
\* True number at most 60 under any per-user key and at most 120 under any
\* per-IP key.
C13_AtMostLimitAllowed ==
    \A k \in DOMAIN allowed :
        allowed[k] <= (IF k[1] = "rl:lookup:user" THEN LOOKUP_LIMIT_PER_MIN
                       ELSE LOOKUP_LIMIT_PER_IP)

\* a lookup_part request finishes in slot p in this step
Looked(p) ==
    /\ reqs'[p].op = "done"
    /\ reqs'[p].of.op = "lookup_part"
    /\ \/ reqs'[p] # reqs[p]
       \/ vars' # vars /\ \A q \in Slots \ {p} : reqs'[q] = reqs[q]

\* the identifier, trimmed, has a character that is neither digit nor letter
Separated(part_id) ==
    \E i \in 1..Len(Strip(part_id)) : Strip(part_id)[i] \notin Digit \cup Letter

\* C14: a lookup_part request that follows a lookup_part request for the
\* same identifier (no time passes, so within the cache TTL) issues no
\* external call, and the two requests together issue at most one.
C14_SecondFromCache ==
    [][\A p \in Slots :
          (Looked(p) /\ lastLookup # Null /\ lastLookup.raw = reqs'[p].of.arg)
          => /\ reqs'[p].resp.calls = 0
             /\ lastLookup.calls + reqs'[p].resp.calls <= 1]_vars

\* C15: a lookup_part request whose identifier has a separator answers
\* found = false, leaves the rate-limit counters as they were, issues no
\* external call, and leaves a miss in the cache under the identifier.
C15_AmbiguousIsFreeMiss ==
    [][\A p \in Slots :
          (Looked(p) /\ Separated(reqs'[p].of.arg))
          => LET cache_key == <<"lookup", "part", Strip(reqs'[p].of.arg)>> IN
             /\ reqs'[p].resp.status = 200
             /\ reqs'[p].resp.body = [ok |-> TRUE, found |-> FALSE]
             /\ reqs'[p].resp.calls = 0
             /\ counters' = counters
             /\ cache_key \in DOMAIN lookups'
             /\ lookups'[cache_key] = [ok |-> TRUE, found |-> FALSE]
             /\ parts' = parts /\ elements' = elements]_vars

\* C15 witness: after lookups that consumed rate-limit budget, a request for
\* an identifier with '&' has been answered with a miss that is in the cache.
C15_Witness ==
    /\ reqs["r1"].op = "done"
    /\ reqs["r1"].of.op = "lookup_part"
    /\ \E i \in 1..Len(reqs["r1"].of.arg) : reqs["r1"].of.arg[i] = "&"
    /\ reqs["r1"].resp.body = [ok |-> TRUE, found |-> FALSE]
    /\ <<"lookup", "part", reqs["r1"].of.arg>> \in DOMAIN lookups
    /\ CacheGet(counters, UserKey("alice")) > 0

\* C16: a lookup_part request that issued an external call ends with status
\* 200 (found = true or found = false), whatever the calls answered.
C16_UpstreamFailureRecovered ==
    \A p \in Slots :
        (reqs[p].op = "done" /\ reqs[p].of.op = "lookup_part" /\ reqs[p].resp.calls > 0)
        => reqs[p].resp.status = 200

\* slot p holds the response of a batch that was served without an error
Batched(p) ==
    /\ reqs[p].op = "done"
    /\ reqs[p].of.op = "bulk_update_missing_batch"
    /\ reqs[p].resp.status = 200

\* C17: the response of bulk_update_missing_batch has done = true exactly
\* when the query of the call selected fewer rows than batch_size (after
\* clamping), a non-empty final batch included.
C17_DoneIffShort ==
    \A p \in Slots :
        Batched(p) => (reqs[p].resp.done <=>
                          Len(reqs[p].resp.selected) < reqs[p].of.batch_size)

\* the caller's loop has received a response with done = true
LoopDone == Batched("r1") /\ reqs["r1"].resp.done

C19_OnlyMissingFieldsWritten ==
    [][\A p \in Slots :
          (At(p, "bulk_update_missing_batch", "item") /\ reqs'[p] # reqs[p])
          => /\ DOMAIN items' = DOMAIN items
             /\ \A pk \in DOMAIN items :
                   /\ items'[pk].name # items[pk].name
                         => Lower(items[pk].name) = "unknown"
                   /\ items'[pk].image_url # items[pk].image_url
                         => items[pk].image_url = ""
                   /\ [items'[pk] EXCEPT !.name = "", !.image_url = ""]
                         = [items[pk] EXCEPT !.name = "", !.image_url = ""]]_vars

\* the quantities break 0 <= quantity_used <= quantity_total
OutOfRange(row) ==
    ~(0 <= row.quantity_used /\ row.quantity_used <= row.quantity_total)

\* the request is a create or an edit that posted out-of-range quantities
WouldViolate(rq) ==
    /\ rq.op \in {"item_create", "item_update"}
    /\ "form" \in DOMAIN rq
    /\ rq.method = "POST"
    /\ OutOfRange(rq.form)

\* the import in slot p is about to save an object with out-of-range quantities
SavesOutOfRange(p) ==
    /\ At(p, "import_csv", "save")
    /\ ImportObject(reqs[p]) # Null
    /\ OutOfRange(ImportObject(reqs[p]).item)

\* the response is an error that names quantity_used
NamesQuantityUsed(resp) ==
    /\ resp.msg[1] \in {"item_form.html", "error"}
    /\ \E i \in 1..Len(resp.msg[2]) : resp.msg[2][i] = "quantity_used"

\* C20: every stored item has 0 <= quantity_used <= quantity_total in every
\* reachable state, and a create, an edit or an import whose quantities
\* break this ends with an error that names quantity_used and leaves the
\* items as they were; the batches write no quantity but those they read.
C20_QuantitiesInRange ==
    /\ [](\A pk \in DOMAIN items : ~OutOfRange(items[pk]))
    /\ [][\A p \in Slots :
             \/ /\ Stepped(p) /\ reqs'[p].op = "done" /\ WouldViolate(reqs'[p].of)
                /\ reqs[p].op # "import_csv"
             \/ SavesOutOfRange(p) /\ reqs'[p] # reqs[p]
             => /\ items' = items
                /\ reqs'[p].op = "done"
                /\ NamesQuantityUsed(reqs'[p].resp)]_vars

\* C20 witness: with an item stored, an import whose first row is in range
\* and whose second row has quantity_used above quantity_total has been
\* refused, and nothing of it is in the table.
C20_Witness ==
    /\ reqs["r1"].op = "done"
    /\ reqs["r1"].of.op = "import_csv"
    /\ Len(reqs["r1"].of.arg) = 2
    /\ ~OutOfRange(reqs["r1"].of.arg[1])
    /\ reqs["r1"].of.arg[2].quantity_used > reqs["r1"].of.arg[2].quantity_total
    /\ NamesQuantityUsed(reqs["r1"].resp)
    /\ Cardinality(DOMAIN items) = 1
    /\ \A pk \in DOMAIN items : items[pk].color # reqs["r1"].of.arg[1].color

\* the row that a finished create request posted, for its user
Posted(rq) == ItemRow(rq.user, rq.form)

UniqueConflict == ErrorOccurred("unique_user_part_color")

C22_RoundTripKeepsItems ==
    [][(At("r1", "import_csv", "save") /\ reqs'["r1"].op = "done") => items' = items]_vars

\* the request in slot p' is an import that has ended with "Import failed"
ImportHasFailed(rec) ==
    /\ rec.op = "done"
    /\ rec.of.op = "import_csv"
    /\ rec.resp.msg[1] = "error"

\* C23: an import that fails at one of its rows (out-of-range quantities, or
\* a uniqueness conflict with a row written meanwhile) changes no stored
\* item: no step of an import changes the items but the step that ends it
\* with success.
C23_FailedImportWritesNothing ==
    [][\A p \in Slots :
          (reqs[p].op = "import_csv" /\ Stepped(p)
           /\ ~(reqs'[p].op = "done" /\ reqs'[p].resp.msg[1] = "success"))
          => items' = items]_vars

\* C23 witness: an import of two rows has failed at its second row after its
\* first row had inserted an item under the newest pk; no item has that pk
\* or the key of the first row.
C23_Witness ==
    /\ ImportHasFailed(reqs["r1"])
    /\ Len(reqs["r1"].of.arg) = 2
    /\ itemSeq > 0 /\ itemSeq \notin DOMAIN items
    /\ \A pk \in DOMAIN items :
          ~SameKey(items[pk], ItemRow("alice", reqs["r1"].of.arg[1]))
    /\ OutOfRange(reqs["r1"].of.arg[2])

\* C24: in every reachable state, also when two create_share_link requests
\* of one user are served concurrently, each user has at most one
\* InventoryShare row with is_active = true.
C24_OneActiveSharePerUser ==
    \A u \in Users : Cardinality(ActiveShares(u)) <= 1

\* C25: in the last lookup, a hit of the result cache was followed by no
\* external call; the Rebrickable API was called only if a name or an image
\* was missing after the local catalog, the rate limiter had allowed the
\* request and an API key was configured; BrickLink was scraped only if the
\* name was missing after the API step.
C25_StepsInOrder ==
    lastLookup # Null =>
        /\ lastLookup.cached => lastLookup.calls = 0
        /\ lastLookup.api > 0 =>
              lastLookup.limited /\ lastLookup.passed = 1 /\ lastLookup.api_key # ""
        /\ lastLookup.calls > lastLookup.api => lastLookup.unnamed

\* C26: when a call of bulk_update_missing_batch fails at one of its items
\* (the response is the 500 of its except clause), no row that the call saved
\* at an earlier item is in the table as the call saved it.
C26_BatchAllOrNothing ==
    \A p \in Slots :
       (reqs[p].op = "done" /\ reqs[p].of.op = "bulk_update_missing_batch"
          /\ reqs[p].resp = BatchFailed)
       => \A w \in reqs[p].of.wrote :
             ~(w.id \in DOMAIN items /\ items[w.id] = w.item)

\* C27: a get_cached() that begins after a save has completed, and that no
\* save overlaps, returns the values of the row (those of the last save),
\* whatever other get_cached() calls run before and during it.
C27_CachedIsSaved ==
    [][\A p \in Slots :
          (reqs[p].op \in {"idle", "done", "get_cached"} /\ reqs'[p] # reqs[p]
             /\ reqs'[p].op = "done" /\ reqs'[p].of = ConfigRequest
             /\ configSaves >= 1 /\ Saving = {}
             /\ (reqs[p].op = "get_cached" => reqs[p].saves = configSaves))
          => reqs'[p].resp = appconfig]_vars

\* the part number carries a tag
Tagged(s) == \E i \in 1..Len(s) : s[i] \in {"<", ">"}
\* the string is one that sanitize_text, or sanitize_url, returns
CleanText(text) == sanitize_text(text) = text
CleanUrl(url) == sanitize_url(url) = url

\* C28: every part number, name, colour name and image URL in RBPart,
\* RBElement, the inventory items and the body of a lookup that found
\* something is a string as sanitize_text or sanitize_url returns it, whatever
\* the Rebrickable API and the BrickLink page answered.
C28_ExternalStringsSanitized ==
    /\ \A pn \in DOMAIN parts :
          ~Tagged(pn) /\ CleanText(parts[pn].name) /\ CleanUrl(parts[pn].image_url)
    /\ \A el \in DOMAIN elements :
          ~Tagged(elements[el].part) /\ CleanText(elements[el].color)
    /\ \A pk \in DOMAIN items :
          CleanText(items[pk].name) /\ CleanUrl(items[pk].image_url)
    /\ \A p \in Slots :
          (reqs[p].op = "done" /\ reqs[p].of.op = "lookup_part"
             /\ reqs[p].resp.body.ok /\ reqs[p].resp.body.found)
          => LET data == reqs[p].resp.body IN
             /\ CleanText(data.name) /\ ~Tagged(data.part_id) /\ CleanUrl(data.image_url)
             /\ "color" \in DOMAIN data => CleanText(data.color)

\* the share row has max_access_count = N with N >= 1
Limited(row) == row.max_access_count # Null /\ row.max_access_count[1] >= 1

\* the public accesses of the share that are running read it with the limit
\* that it has
ReadWithLimit(pk) ==
    \A p \in Slots :
       (reqs[p].op = "shared_inventory" /\ reqs[p].pk = pk)
       => reqs[p].share.max_access_count = shares[pk].max_access_count

\* C29: no step takes the access_count of a share whose max_access_count is
\* set to N >= 1 from at most N to above N, however the public accesses that
\* began under this limit, each with its expiry check and its record_access,
\* interleave.
C29_AccessCountWithinLimit ==
    [][\A pk \in DOMAIN shares :
          (pk \in DOMAIN shares' /\ Limited(shares[pk]) /\ ReadWithLimit(pk)
             /\ shares'[pk].max_access_count = shares[pk].max_access_count
             /\ shares[pk].access_count <= shares[pk].max_access_count[1])
          => shares'[pk].access_count <= shares[pk].max_access_count[1]]_vars

\* C30: a row that accept_invite has bound to a user (collaborator set,
\* accepted_at set) keeps its collaborator in every step in which it stays
\* in the table, also when two users accept the same pending token
\* concurrently.
C30_BindingNeverChanges ==
    [][\A pk \in DOMAIN collabs :
          (pk \in DOMAIN collabs' /\ collabs[pk].collaborator # NoUser
             /\ collabs[pk].accepted_at # Null)
          => collabs'[pk].collaborator = collabs[pk].collaborator]_vars

====
